---- MODULE Spec2Model ----
(***************************************************************************)
(* Verified Protocol: the append-only skill ledger (smart contract), the   *)
(* off-chain ARC-4 decoders and the callers that read the ledger.          *)
(*                                                                         *)
(* Bytes are integers 0..255, byte strings are sequences of bytes, text    *)
(* strings are sequences of Unicode code points.                           *)
(***************************************************************************)
EXTENDS Integers, Sequences, FiniteSets, TLC

VARIABLES
    boxes,      \* contract Box storage: function from wallet (box key) to box bytes
    submitted,  \* history: per wallet, the records its successful submits carried
    txn,        \* the last executed application call and its return value
    last_read,  \* history: per wallet, the bytes its latest get_skill_records
                \* returned, while no record has been appended to it since
    raw,        \* decoder input: the byte buffer handed to a decoder
    src,        \* decoder input: the entries raw was built from, in order
    shape,      \* decoder input: how raw ends ("frames", "prefix", "stray")
    result,     \* outcome of the last decoder call
    wallet_records, \* aggregator input: the decoded records of one wallet
    now,        \* aggregator input: the clock value read by the last compute
    profile,    \* the profile returned by the last compute
    request,    \* the submit request in progress: its client, arguments,
                \* position in the handler and the attempts made so far
    fetch,      \* the fetch_records call in progress: the count it read, the
                \* bytes it read and the list it returned
    walk        \* the decoder or counting loop in progress: its buffer,
                \* cursor and the entries emitted so far

vars == <<boxes, submitted, txn, last_read, raw, src, shape, result,
          wallet_records, now, profile, request, fetch, walk>>

ledgerVars == <<boxes, submitted, txn, last_read>>
codecVars == <<raw, src, shape, result>>
aggVars == <<wallet_records, now, profile>>
clientVars == <<request, fetch, walk>>

(***************************************************************************)
(* Bounds of the model.                                                    *)
(***************************************************************************)
MaxSubmits == 3     \* submits per run of the ledger specification
MaxFrames == 2      \* frames appended per run of the decoder specification
MaxRecords == 3      \* decoded records handed to one compute call
MaxDomainRecords == 6    \* records of one domain handed to one compute call
MaxBoxSize == 100   \* the size beyond which op.Box.put / op.Box.resize fail
                    \* (32768 bytes on the AVM, scaled to the model's frames)

Min(a, b) == IF a < b THEN a ELSE b

(***************************************************************************)
(* Byte-level primitives.                                                  *)
(***************************************************************************)
\* Python slicing data[start:end] with non-negative indices: clamps, never raises.
Slice(data, start, end) ==
    LET s == Min(start, Len(data))
        e == Min(end, Len(data))
    IN IF e <= s THEN <<>> ELSE SubSeq(data, s + 1, e)

\* op.itob: 8-byte big-endian encoding of a uint64.
RECURSIVE BigEndian(_, _)
BigEndian(value, width) ==
    IF width = 0 THEN <<>>
    ELSE Append(BigEndian(value \div 256, width - 1), value % 256)

itob(value) == BigEndian(value, 8)

\* op.btoi / the value struct.unpack reads: big-endian bytes to integer.
RECURSIVE btoi(_)
btoi(bytes) ==
    IF bytes = <<>> THEN 0
    ELSE btoi(SubSeq(bytes, 1, Len(bytes) - 1)) * 256 + bytes[Len(bytes)]

\* _uint16_to_bytes: the low two bytes of itob(value).
_uint16_to_bytes(value) == SubSeq(itob(value), 7, 8)

\* _bytes_to_uint16: btoi(bzero(6) + raw).
_bytes_to_uint16(bytes) == btoi(<<0, 0, 0, 0, 0, 0>> \o bytes)

\* struct.unpack(">H" / ">Q", b): raises struct.error unless b has the exact size.
StructError == -1
unpack(size, bytes) == IF Len(bytes) = size THEN btoi(bytes) ELSE StructError

(***************************************************************************)
(* UTF-8.  Code points below 0x800 (one- and two-byte forms) are modelled; *)
(* REPLACEMENT is U+FFFD, which errors="replace" substitutes for each      *)
(* byte that does not start a valid sequence.                              *)
(***************************************************************************)
REPLACEMENT == 65533

utf8_char(cp) ==
    IF cp < 128 THEN <<cp>>
    ELSE <<192 + (cp \div 64), 128 + (cp % 64)>>

\* str.encode("utf-8"): the code points' encodings, concatenated in order
\* (computed by halving, so that long strings stay within a shallow recursion).
RECURSIVE utf8_encode(_)
utf8_encode(s) ==
    IF Len(s) = 0 THEN <<>>
    ELSE IF Len(s) = 1 THEN utf8_char(s[1])
    ELSE LET half == Len(s) \div 2
         IN utf8_encode(SubSeq(s, 1, half)) \o utf8_encode(SubSeq(s, half + 1, Len(s)))

IsContinuation(b) == b >= 128 /\ b <= 191
IsLead2(b) == b >= 194 /\ b <= 223

\* Faulty variant of utf8_decode: every byte taken as one code point (latin-1).
latin1_decode(bytes) == bytes

\* bytes.decode("utf-8", errors="replace")
RECURSIVE utf8_decode(_)
utf8_decode(bytes) ==
    IF bytes = <<>> THEN <<>>
    ELSE LET b == bytes[1] IN
         IF b < 128 THEN <<b>> \o utf8_decode(Tail(bytes))
         ELSE IF IsLead2(b) /\ Len(bytes) >= 2 /\ IsContinuation(bytes[2])
              THEN <<(b - 192) * 64 + (bytes[2] - 128)>> \o utf8_decode(Tail(Tail(bytes)))
              ELSE <<REPLACEMENT>> \o utf8_decode(Tail(bytes))

\* bytes.hex(): two hexadecimal digits (as values 0..15) per byte.
RECURSIVE hex(_)
hex(bytes) ==
    IF bytes = <<>> THEN <<>>
    ELSE <<bytes[1] \div 16, bytes[1] % 16>> \o hex(Tail(bytes))

(***************************************************************************)
(* ARC-4 encoding of a SkillRecord, as the contract builds it.             *)
(***************************************************************************)
\* ARC4String: [2-byte big-endian length][UTF-8 bytes]
ARC4String(s) == _uint16_to_bytes(Len(utf8_encode(s))) \o utf8_encode(s)

\* ARC4UInt64: 8 bytes big-endian
ARC4UInt64(n) == itob(n)

HEADER_SIZE == 22

\* Faulty variant of SkillRecord: the offsets count the outer 2-byte prefix.
SkillRecord_outer_offsets(mode, domain, score, artifact_hash, timestamp) ==
    LET m == ARC4String(mode)
        d == ARC4String(domain)
        a == ARC4String(artifact_hash)
        mode_off == HEADER_SIZE + 2
        domain_off == mode_off + Len(m)
        artifact_off == domain_off + Len(d)
    IN _uint16_to_bytes(mode_off) \o _uint16_to_bytes(domain_off)
         \o ARC4UInt64(score) \o _uint16_to_bytes(artifact_off)
         \o ARC4UInt64(timestamp) \o m \o d \o a

\* SkillRecord(...).bytes: the head holds offsets of the dynamic fields and the
\* static fields in place; the tail holds the dynamic fields in field order.
SkillRecord(mode, domain, score, artifact_hash, timestamp) ==
    LET m == ARC4String(mode)
        d == ARC4String(domain)
        a == ARC4String(artifact_hash)
        mode_off == HEADER_SIZE
        domain_off == mode_off + Len(m)
        artifact_off == domain_off + Len(d)
    IN _uint16_to_bytes(mode_off) \o _uint16_to_bytes(domain_off)
         \o ARC4UInt64(score) \o _uint16_to_bytes(artifact_off)
         \o ARC4UInt64(timestamp) \o m \o d \o a

\* Faulty variant of payload: the prefix counts its own two bytes.
payload_self_counting(r) ==
    LET record_bytes == SkillRecord(r.mode, r.domain, r.score, r.artifact_hash, r.timestamp)
        record_len == Len(record_bytes) + 2
    IN _uint16_to_bytes(record_len) \o record_bytes

\* Steps 1-2 of submit_skill_record: the length-prefixed payload.
payload(r) ==
    LET record_bytes == SkillRecord(r.mode, r.domain, r.score, r.artifact_hash, r.timestamp)
        record_len == Len(record_bytes)
    IN _uint16_to_bytes(record_len) \o record_bytes

(***************************************************************************)
(* Off-chain decoders.  A decoder returns a list of entries: a decoded     *)
(* record, or a failure entry carrying the frame's hex.  The outcome also  *)
(* records whether the call raised and the warnings it logged.             *)
(***************************************************************************)
ERR_H == "unpack requires a buffer of 2 bytes"
ERR_Q == "unpack requires a buffer of 8 bytes"

\* Python evaluates an argument once, before the call: F applied to the value
\* of the argument.
ByValue(F(_), argument) == CHOOSE value \in {F(v) : v \in {argument}} : TRUE

\* _read_arc4_string / _s / read_arc4_string: the length prefix is unpacked (and
\* raises on a short slice); the body is a slice, which never raises.
read_arc4_string(data, start) ==
    LET body(str_len) ==
            IF str_len = StructError
            THEN [ok |-> FALSE, value |-> <<>>]
            ELSE [ok |-> TRUE,
                  value |-> ByValue(utf8_decode,
                                    Slice(data, start + 2, start + 2 + str_len))]
    IN ByValue(body, unpack(2, Slice(data, start, start + 2)))

\* The failure entry of the except branch; interact.py names the message "error",
\* the other two decoders "decode_error".
failure_entry(rec, message, cli) ==
    IF cli THEN [raw_hex |-> hex(rec), error |-> message]
    ELSE [raw_hex |-> hex(rec), decode_error |-> message]

\* The try block of one frame: header parse, then the three strings, in the
\* order Python evaluates them; the first struct.error decides the message.
parse_record(rec, cli) ==
    LET strings(h, s) ==
            IF ~s.mode.ok \/ ~s.domain.ok \/ ~s.artifact_hash.ok
            THEN failure_entry(rec, ERR_H, cli)
            ELSE [mode |-> s.mode.value, domain |-> s.domain.value, score |-> h.score,
                  artifact_hash |-> s.artifact_hash.value, timestamp |-> h.timestamp]
        header(h) ==
            IF h.mode_off = StructError \/ h.domain_off = StructError
            THEN failure_entry(rec, ERR_H, cli)
            ELSE IF h.score = StructError THEN failure_entry(rec, ERR_Q, cli)
            ELSE IF h.artifact_off = StructError THEN failure_entry(rec, ERR_H, cli)
            ELSE IF h.timestamp = StructError THEN failure_entry(rec, ERR_Q, cli)
            ELSE ByValue(LAMBDA s : strings(h, s),
                         [mode |-> read_arc4_string(rec, h.mode_off),
                          domain |-> read_arc4_string(rec, h.domain_off),
                          artifact_hash |-> read_arc4_string(rec, h.artifact_off)])
    IN ByValue(header, [mode_off |-> unpack(2, Slice(rec, 0, 2)),
                        domain_off |-> unpack(2, Slice(rec, 2, 4)),
                        score |-> unpack(8, Slice(rec, 4, 12)),
                        artifact_off |-> unpack(2, Slice(rec, 12, 14)),
                        timestamp |-> unpack(8, Slice(rec, 14, 22))])

IsFailure(entry) == "raw_hex" \in DOMAIN entry

\* Faulty variant of prefix_missing: the guard is left out.
prefix_missing_never(offset, data_len) == FALSE

\* The guard in front of the length prefix: fewer than 2 bytes remain.
prefix_missing(offset, data_len) == offset + 2 > data_len

\* Faulty variant of body_missing: the guard is left out.
body_missing_never(offset, record_len, data_len) == FALSE

\* The guard behind the length prefix: the frame body is not all there.
body_missing(offset, record_len, data_len) == offset + record_len > data_len

\* The while loop shared by the three decoders.  logs: the decoder calls
\* logger.warning (read_records.py, interact.py); cli: interact.py's entry keys.
RECURSIVE decode_walk(_, _, _, _, _, _)
decode_walk(data, offset, records, warnings, logs, cli) ==
    LET data_len == Len(data)
        done == [records |-> records, raised |-> FALSE, warnings |-> warnings]
    IN IF ~(offset < data_len) THEN done
       ELSE IF prefix_missing(offset, data_len) THEN done
       ELSE LET record_len == unpack(2, Slice(data, offset, offset + 2))
                body == offset + 2
            IN IF record_len = StructError
               THEN [records |-> records, raised |-> TRUE, warnings |-> warnings]
               ELSE IF body_missing(body, record_len, data_len)
               THEN [done EXCEPT !.warnings =
                        IF logs THEN Append(warnings, "truncated") ELSE warnings]
               ELSE LET rec == Slice(data, body, body + record_len)
                        entry == parse_record(rec, cli)
                    IN decode_walk(data, body + record_len, Append(records, entry),
                                   IF logs /\ IsFailure(entry)
                                   THEN Append(warnings, "decode_error") ELSE warnings,
                                   logs, cli)

\* backend/config.py decode_skill_records
decode_skill_records(data) == decode_walk(data, 0, <<>>, <<>>, FALSE, FALSE)

\* read_records.py decode_skill_records
read_records_decode(data) == decode_walk(data, 0, <<>>, <<>>, TRUE, FALSE)

\* interact.py _decode_skill_records
_decode_skill_records(data) == decode_walk(data, 0, <<>>, <<>>, TRUE, TRUE)

(***************************************************************************)
(* Inputs: the wallets and the records that are submitted.                 *)
(***************************************************************************)
Wallets == {"alice", "bob"}

\* Text is a sequence of code points: 97 'a', 112 'p', 121 'y', 58 ':',
\* 233 'e-acute' (two bytes in UTF-8).
Records ==
    { [mode |-> <<97>>, domain |-> <<112, 121>>, score |-> 80,
       artifact_hash |-> <<100>>, timestamp |-> 7],
      [mode |-> <<233>>, domain |-> <<112>>, score |-> 300,
       artifact_hash |-> <<>>, timestamp |-> 0],
      [mode |-> <<>>, domain |-> <<112, 58, 233>>, score |-> 0,
       artifact_hash |-> <<100, 233>>, timestamp |-> 70000],
      [mode |-> <<97>>, domain |-> <<112, 121>>, score |-> 80,
       artifact_hash |-> <<100>>, timestamp |-> 8] }

(***************************************************************************)
(* The contract: Box primitives and the three ABI methods.  The AVM runs   *)
(* each application call to completion before the next one starts.         *)
(***************************************************************************)
Zeros(n) == [i \in 1..n |-> 0]

\* op.Box.get
box_exists(key) == key \in DOMAIN boxes
box_get(key) == IF box_exists(key) THEN boxes[key] ELSE <<>>

\* Faulty variant of box_resize: the box is created anew, zero-filled.
box_resize_recreate(data, new_total) == Zeros(new_total)

\* op.Box.resize: zero-fills on growth, cuts on shrinkage.
box_resize(data, new_total) ==
    IF new_total >= Len(data) THEN data \o Zeros(new_total - Len(data))
    ELSE SubSeq(data, 1, new_total)

\* Faulty variant of box_replace: the write starts one byte early.
box_replace_early(data, start, new) ==
    [i \in 1..Len(data) |->
        IF i >= start /\ i < start + Len(new) THEN new[i - start + 1] ELSE data[i]]

\* op.Box.replace: overwrites Len(new) bytes from offset start.
box_replace(data, start, new) ==
    [i \in 1..Len(data) |->
        IF i > start /\ i <= start + Len(new) THEN new[i - start] ELSE data[i]]

\* Faulty variant of box_append: the box is resized and the payload never written.
box_append_resize_only(data, new) == box_resize(data, Len(data) + Len(new))

\* The box_exists branch of submit_skill_record: resize, then write the new
\* payload at the old end offset.
box_append(data, new) ==
    LET current_length == Len(data)
        payload_length == Len(new)
        new_total == current_length + payload_length
    IN box_replace(box_resize(data, new_total), current_length, new)

\* Faulty variant of sender_key: one fixed key for every sender.
sender_key_fixed(sender) == "alice"

\* Step 3 of submit_skill_record: the box key is the transaction sender.
sender_key(sender) == sender

\* Faulty variant of appended_box: Box.put whether or not the box exists.
appended_box_put(key, new) == new

\* Step 4 of submit_skill_record: the box stored under key after the call.
appended_box(key, new) ==
    IF box_exists(key) THEN box_append(boxes[key], new) ELSE new

\* Faulty variant of count_walk: the walk advances by record_len only.
RECURSIVE count_walk_no_prefix(_, _, _)
count_walk_no_prefix(box_data, offset, count) ==
    IF ~(offset < Len(box_data)) THEN [ok |-> TRUE, count |-> count]
    ELSE IF offset + 2 > Len(box_data) THEN [ok |-> FALSE, count |-> count]
    ELSE LET record_len == _bytes_to_uint16(SubSeq(box_data, offset + 1, offset + 2))
         IN IF record_len = 0 THEN [ok |-> FALSE, count |-> count]
            ELSE count_walk_no_prefix(box_data, offset + record_len, count + 1)

\* The loop of get_record_count; op.extract past the end fails the call.
RECURSIVE count_walk(_, _, _)
count_walk(box_data, offset, count) ==
    IF ~(offset < Len(box_data)) THEN [ok |-> TRUE, count |-> count]
    ELSE IF offset + 2 > Len(box_data) THEN [ok |-> FALSE, count |-> count]
    ELSE LET record_len == _bytes_to_uint16(SubSeq(box_data, offset + 1, offset + 2))
         IN count_walk(box_data, offset + 2 + record_len, count + 1)

\* get_record_count on the outcome (box_data, box_exists) of op.Box.get.
count_records(box_data, exists) ==
    IF ~exists THEN [ok |-> TRUE, count |-> 0]
    ELSE count_walk(box_data, 0, 0)

record_count(wallet) == count_records(box_get(wallet), box_exists(wallet))

TotalSubmits == LET RECURSIVE Sum(_)
                    Sum(S) == IF S = {} THEN 0
                              ELSE LET w == CHOOSE x \in S : TRUE
                                   IN Len(submitted[w]) + Sum(S \ {w})
                IN Sum(Wallets)

\* op.Box.put and op.Box.resize fail when the requested size is beyond the
\* host's box size limit.
box_size_allowed(new_size) == new_size <= MaxBoxSize

\* Whether step 4 of submit_skill_record runs to completion: the size it asks
\* op.Box.resize (existing box) or op.Box.put (new box) for is allowed.
appended_box_fits(key, new) ==
    IF box_exists(key) THEN box_size_allowed(Len(boxes[key]) + Len(new))
    ELSE box_size_allowed(Len(new))

NoArgs == [mode |-> <<>>, domain |-> <<>>, score |-> 0, artifact_hash |-> <<>>,
           timestamp |-> 0]
Unread == [seen |-> FALSE, bytes |-> <<>>]

\* Faulty variant of submit_skill_record: when the box cannot grow the call
\* returns normally without appending.
submit_skill_record_drop(sender, r) ==
    /\ TotalSubmits < MaxSubmits
    /\ IF appended_box_fits(sender_key(sender), payload(r))
       THEN /\ boxes' = [k \in DOMAIN boxes \cup {sender_key(sender)} |->
                           IF k = sender_key(sender)
                           THEN appended_box(sender_key(sender), payload(r))
                           ELSE boxes[k]]
            /\ submitted' = [submitted EXCEPT ![sender] = Append(@, r)]
            /\ last_read' = [last_read EXCEPT ![sender_key(sender)] = Unread]
       ELSE UNCHANGED <<boxes, submitted, last_read>>
    /\ txn' = [method |-> "submit_skill_record", wallet |-> sender, args |-> r,
               ok |-> TRUE, bytes |-> <<>>, count |-> 0]
    /\ UNCHANGED codecVars
    /\ UNCHANGED aggVars
    /\ UNCHANGED clientVars

\* submit_skill_record as one application call: either every step runs and
\* the payload is appended to the sender's box, or op.Box.resize / op.Box.put
\* fails, the call is rejected and no box changes.
submit_skill_record(sender, r) ==
    /\ TotalSubmits < MaxSubmits
    /\ IF appended_box_fits(sender_key(sender), payload(r))
       THEN /\ boxes' = [k \in DOMAIN boxes \cup {sender_key(sender)} |->
                           IF k = sender_key(sender)
                           THEN appended_box(sender_key(sender), payload(r))
                           ELSE boxes[k]]
            /\ submitted' = [submitted EXCEPT ![sender] = Append(@, r)]
            /\ last_read' = [last_read EXCEPT ![sender_key(sender)] = Unread]
            /\ txn' = [method |-> "submit_skill_record", wallet |-> sender,
                       args |-> r, ok |-> TRUE, bytes |-> <<>>, count |-> 0]
       ELSE /\ UNCHANGED <<boxes, submitted, last_read>>
            /\ txn' = [method |-> "submit_skill_record", wallet |-> sender,
                       args |-> r, ok |-> FALSE, bytes |-> <<>>, count |-> 0]
    /\ UNCHANGED codecVars
    /\ UNCHANGED aggVars
    /\ UNCHANGED clientVars

\* Faulty variant of get_skill_records: reading a wallet without a box
\* creates an empty box for it.
get_skill_records_creating(wallet) ==
    /\ txn' = [method |-> "get_skill_records", wallet |-> wallet, args |-> NoArgs,
               ok |-> TRUE, bytes |-> box_get(wallet), count |-> 0]
    /\ boxes' = [k \in DOMAIN boxes \cup {wallet} |-> box_get(k)]
    /\ last_read' = [last_read EXCEPT ![wallet] =
                        [seen |-> TRUE, bytes |-> box_get(wallet)]]
    /\ UNCHANGED submitted
    /\ UNCHANGED codecVars
    /\ UNCHANGED aggVars
    /\ UNCHANGED clientVars

get_skill_records(wallet) ==
    /\ txn' = [method |-> "get_skill_records", wallet |-> wallet, args |-> NoArgs,
               ok |-> TRUE, bytes |-> box_get(wallet), count |-> 0]
    /\ last_read' = [last_read EXCEPT ![wallet] =
                        [seen |-> TRUE, bytes |-> box_get(wallet)]]
    /\ UNCHANGED <<boxes, submitted>>
    /\ UNCHANGED codecVars
    /\ UNCHANGED aggVars
    /\ UNCHANGED clientVars

get_record_count(wallet) ==
    /\ txn' = [method |-> "get_record_count", wallet |-> wallet, args |-> NoArgs,
               ok |-> record_count(wallet).ok,
               bytes |-> <<>>, count |-> record_count(wallet).count]
    /\ UNCHANGED <<boxes, submitted, last_read>>
    /\ UNCHANGED codecVars
    /\ UNCHANGED aggVars
    /\ UNCHANGED clientVars

NoTxn == [method |-> "none", wallet |-> "none", args |-> NoArgs, ok |-> TRUE,
          bytes |-> <<>>, count |-> 0]
NoProfile == [wallet |-> "none"]
NoRequest == [phase |-> "idle"]
NoFetch == [phase |-> "idle"]
NoWalk == [phase |-> "idle"]
NotRun == [decoder |-> "none", records |-> <<>>, raised |-> FALSE, warnings |-> <<>>]

Init ==
    /\ boxes = <<>>
    /\ submitted = [w \in Wallets |-> <<>>]
    /\ txn = NoTxn
    /\ last_read = [w \in Wallets |-> Unread]
    /\ raw = <<>>
    /\ src = <<>>
    /\ shape = "frames"
    /\ result = NotRun
    /\ wallet_records = <<>>
    /\ now = 0
    /\ profile = NoProfile
    /\ request = NoRequest
    /\ fetch = NoFetch
    /\ walk = NoWalk

Next ==
    \/ \E sender \in Wallets, r \in Records : submit_skill_record(sender, r)
    \/ \E wallet \in Wallets : get_skill_records(wallet)
    \/ \E wallet \in Wallets : get_record_count(wallet)

Spec == Init /\ [][Next]_vars

(***************************************************************************)
(* Payload specification: steps 1-2 of submit_skill_record on records      *)
(* whose three strings are short or each about a third of 65535 bytes, so  *)
(* that the struct's length lies on either side of what 2 bytes can hold.  *)
(***************************************************************************)
UINT16_MAX == 65535

\* The string length at which three equal strings give a struct of
\* UINT16_MAX + 1 bytes: 22 bytes of header and three 2-byte length prefixes.
ThirdLen == (UINT16_MAX + 1 - HEADER_SIZE - 6) \div 3

WideLens == {0, 1, 2, ThirdLen - 1, ThirdLen, ThirdLen + 1}

\* A text of n code points 'a'.
Text(n) == [i \in 1..n |-> 97]

WideRecord(m, d, a) ==
    [mode |-> Text(m), domain |-> Text(d), score |-> 1,
     artifact_hash |-> Text(a), timestamp |-> 1]

\* Steps 1-2 of submit_skill_record: the contract builds the struct and its
\* length-prefixed payload; no step compares record_len with 65535.
build_payload(r) ==
    /\ shape = "frames"
    /\ raw' = payload(r)
    /\ shape' = "payload"
    /\ UNCHANGED <<src, result>>
    /\ UNCHANGED ledgerVars
    /\ UNCHANGED aggVars
    /\ UNCHANGED clientVars

PayloadNext ==
    \E m \in WideLens, d \in WideLens, a \in WideLens :
        build_payload(WideRecord(m, d, a))

PayloadSpec == Init /\ [][PayloadNext]_vars

Defects == {"none", "offset_out", "strlen_over", "short"}

\* A complete frame derived from payload(r): as encoded, with the mode offset
\* pointing at the end of the frame, with the mode string's length prefix set
\* to 65535, or a 3-byte struct that is shorter than the header.
frame_of(r, defect) ==
    LET p == payload(r)
        record_len == Len(p) - 2
    IN CASE defect = "none" -> p
         [] defect = "offset_out" ->
                SubSeq(p, 1, 2) \o _uint16_to_bytes(record_len) \o SubSeq(p, 5, Len(p))
         [] defect = "strlen_over" ->
                SubSeq(p, 1, 2 + HEADER_SIZE) \o <<255, 255>>
                    \o SubSeq(p, 2 + HEADER_SIZE + 3, Len(p))
         [] defect = "short" -> <<0, 3, 0, 22, 0>>

StrayBytes == {0, 200}

AllValid == \A i \in 1..Len(src) : src[i].defect = "none"

codec_append(r, defect) ==
    /\ shape = "frames"
    /\ Len(src) < MaxFrames
    /\ raw' = IF raw = <<>> THEN frame_of(r, defect)
              ELSE box_append(raw, frame_of(r, defect))
    /\ src' = Append(src, [rec |-> r, defect |-> defect, frame |-> frame_of(r, defect)])
    /\ result' = NotRun
    /\ UNCHANGED shape
    /\ UNCHANGED ledgerVars
    /\ UNCHANGED aggVars
    /\ UNCHANGED clientVars

\* A proper prefix of a valid multi-record buffer, cut at byte offset n.
codec_truncate(n) ==
    /\ shape = "frames"
    /\ Len(src) >= 2
    /\ AllValid
    /\ raw' = SubSeq(raw, 1, n)
    /\ shape' = "prefix"
    /\ result' = NotRun
    /\ UNCHANGED src
    /\ UNCHANGED ledgerVars
    /\ UNCHANGED aggVars
    /\ UNCHANGED clientVars

\* Valid frames followed by one stray byte.
codec_stray(b) ==
    /\ shape = "frames"
    /\ AllValid
    /\ raw' = raw \o <<b>>
    /\ shape' = "stray"
    /\ result' = NotRun
    /\ UNCHANGED src
    /\ UNCHANGED ledgerVars
    /\ UNCHANGED aggVars
    /\ UNCHANGED clientVars

run_backend_decoder ==
    /\ result' = [decoder |-> "backend"] @@ decode_skill_records(raw)
    /\ UNCHANGED <<raw, src, shape>>
    /\ UNCHANGED ledgerVars
    /\ UNCHANGED aggVars
    /\ UNCHANGED clientVars

run_reader_decoder ==
    /\ result' = [decoder |-> "reader"] @@ read_records_decode(raw)
    /\ UNCHANGED <<raw, src, shape>>
    /\ UNCHANGED ledgerVars
    /\ UNCHANGED aggVars
    /\ UNCHANGED clientVars

run_cli_decoder ==
    /\ result' = [decoder |-> "cli"] @@ _decode_skill_records(raw)
    /\ UNCHANGED <<raw, src, shape>>
    /\ UNCHANGED ledgerVars
    /\ UNCHANGED aggVars
    /\ UNCHANGED clientVars

CodecNext ==
    \/ \E r \in Records, defect \in Defects : codec_append(r, defect)
    \/ \E n \in 0..(Len(raw) - 1) : codec_truncate(n)
    \/ \E b \in StrayBytes : codec_stray(b)
    \/ run_backend_decoder
    \/ run_reader_decoder
    \/ run_cli_decoder

CodecSpec == Init /\ [][CodecNext]_vars

(***************************************************************************)
(* Properties of the ledger (Spec).                                        *)
(***************************************************************************)
IsPrefix(a, b) == Len(a) <= Len(b) /\ SubSeq(b, 1, Len(a)) = a

\* The concatenation of the frames of a list of records.
RECURSIVE Frames(_)
Frames(recs) == IF recs = <<>> THEN <<>> ELSE payload(Head(recs)) \o Frames(Tail(recs))

Other(w) == CHOOSE k \in Wallets : k # w

\* C1: after any sequence of successful submits, for every identity key k,
\* decoding the raw buffer of k yields exactly the records k submitted, in
\* submission order, none lost, duplicated, reordered or altered.
C1_DecodeYieldsSubmitted ==
    \A k \in Wallets :
        /\ ~decode_skill_records(box_get(k)).raised
        /\ decode_skill_records(box_get(k)).records = submitted[k]

C1_Witness ==
    /\ Len(submitted["alice"]) = 2
    /\ Len(submitted["bob"]) = 1
    /\ submitted["alice"][1] # submitted["alice"][2]
    /\ Len(decode_skill_records(box_get("alice")).records) = 2

\* C4: for every identity key and every operation (submit, get_skill_records,
\* get_record_count) the key's buffer before the operation is a byte-for-byte
\* prefix of its buffer after the operation.
C4_BufferOnlyGrows ==
    [][\A k \in Wallets : IsPrefix(box_get(k), box_get(k)')]_vars

C4_Witness ==
    /\ txn.method = "submit_skill_record"
    /\ Len(submitted[txn.wallet]) >= 2
    /\ Len(box_get(txn.wallet)) > Len(payload(submitted[txn.wallet][1]))

\* C8: in every reachable ledger state get_record_count(k) equals the number
\* of entries decode returns for the raw buffer of k and the number of
\* submits k has made; it is 0 for an identity without a box, for which the
\* raw read returns empty bytes.
C8_CountMatchesDecode ==
    /\ \A k \in Wallets :
        /\ record_count(k).ok
        /\ record_count(k).count = Len(decode_skill_records(box_get(k)).records)
        /\ record_count(k).count = Len(submitted[k])
        /\ ~box_exists(k) => box_get(k) = <<>> /\ record_count(k).count = 0
    /\ txn.method = "get_record_count" =>
        txn.ok /\ txn.count = Len(submitted[txn.wallet])

C8_Witness ==
    /\ txn.method = "get_record_count"
    /\ txn.count = 2
    /\ ~box_exists(Other(txn.wallet))

\* C9: whatever the interleaving of submits and reads, the buffer a read
\* returns is the concatenation of the whole frames of the records submitted
\* so far under that key, in the order of the appends: no zero-filled tail of
\* a resize and no partial frame is ever returned or decoded.
C9_ReadsSeeWholeFrames ==
    txn.method = "get_skill_records" =>
        /\ txn.bytes = Frames(submitted[txn.wallet])
        /\ read_records_decode(txn.bytes).warnings = <<>>
        /\ Len(read_records_decode(txn.bytes).records) = Len(submitted[txn.wallet])

C9_Witness ==
    /\ txn.method = "get_skill_records"
    /\ Len(submitted[txn.wallet]) = 2
    /\ Len(txn.bytes) > Len(payload(submitted[txn.wallet][1]))
    /\ Len(submitted[Other(txn.wallet)]) = 1

\* C10: a submit changes only the box keyed by the submitting identity: for
\* every other key the raw buffer, the record count and the decoded records
\* are unchanged, whatever the submitted field values are.
C10_SubmitTouchesOnlySender ==
    [][txn'.method = "submit_skill_record" =>
        \A k \in Wallets \ {txn'.wallet} :
            /\ box_exists(k)' = box_exists(k)
            /\ box_get(k)' = box_get(k)
            /\ count_records(box_get(k)', box_exists(k)') = record_count(k)
            /\ decode_skill_records(box_get(k)') = decode_skill_records(box_get(k))]_vars

C10_Witness ==
    /\ txn.method = "submit_skill_record"
    /\ txn.wallet = "bob"
    /\ Len(submitted["bob"]) >= 1
    /\ Len(submitted["alice"]) >= 1

\* C11: the two read methods leave every box unchanged and create none, and
\* a get_skill_records call on a wallet returns the same bytes as the previous
\* one on that wallet when no record was appended to the wallet in between.
C11_ReadsHaveNoEffect ==
    [][/\ txn'.method \in {"get_skill_records", "get_record_count"} =>
            /\ boxes' = boxes
            /\ DOMAIN boxes' = DOMAIN boxes
       /\ (txn'.method = "get_skill_records" /\ last_read[txn'.wallet].seen) =>
            txn'.bytes = last_read[txn'.wallet].bytes]_vars

C11_Witness ==
    /\ txn.method = "get_skill_records"
    /\ ~box_exists(txn.wallet)
    /\ box_exists(Other(txn.wallet))
    /\ last_read[Other(txn.wallet)].seen
    /\ last_read[Other(txn.wallet)].bytes = box_get(Other(txn.wallet))
    /\ Len(submitted[Other(txn.wallet)]) = 2

\* C13: a submit whose payload would take the sender's box beyond the size
\* limit is rejected and changes no box and no history; every other submit
\* succeeds and extends the sender's box by exactly its payload.
C13_FullBoxRejectsAppend ==
    [][\A sender \in Wallets, r \in Records :
        (/\ txn'.method = "submit_skill_record"
         /\ txn'.wallet = sender
         /\ txn'.args = r) =>
            LET key == sender_key(sender)
                new == payload(r)
            IN IF Len(box_get(key)) + Len(new) > MaxBoxSize
               THEN /\ ~txn'.ok
                    /\ boxes' = boxes
                    /\ submitted' = submitted
               ELSE /\ txn'.ok
                    /\ box_get(key)' = box_get(key) \o new]_vars

C13_Witness ==
    /\ txn.method = "submit_skill_record"
    /\ ~txn.ok
    /\ Len(submitted[txn.wallet]) = 2
    /\ box_get(txn.wallet) = Frames(submitted[txn.wallet])
    /\ Len(box_get(txn.wallet)) + Len(payload(txn.args)) > MaxBoxSize

(***************************************************************************)
(* Properties of the decoders (CodecSpec).                                 *)
(***************************************************************************)
Decoded == result.decoder # "none"

\* The end offset in the untruncated buffer of the i-th frame of src.
RECURSIVE EndOf(_)
EndOf(i) == IF i = 0 THEN 0 ELSE EndOf(i - 1) + Len(src[i].frame)

\* The number of frames of src that lie wholly inside raw.
Contained == Cardinality({i \in 1..Len(src) : EndOf(i) <= Len(raw)})

ContainedRecords == [i \in 1..Contained |-> src[i].rec]

\* raw ends in a fragment that is shorter than a complete frame.
Incomplete == shape \in {"prefix", "stray"} /\ Len(raw) > EndOf(Contained)

\* C2: append monotonicity: for every buffer B of complete frames and every
\* valid record r, decoding B with the frame of r appended yields the entries
\* of decode(B), unchanged, followed by r (for each of the three decoders).
C2_AppendMonotonic ==
    [][(shape = "frames" /\ Len(src') = Len(src) + 1
            /\ src'[Len(src')].defect = "none") =>
        /\ decode_skill_records(raw').records
             = Append(decode_skill_records(raw).records, src'[Len(src')].rec)
        /\ read_records_decode(raw').records
             = Append(read_records_decode(raw).records, src'[Len(src')].rec)
        /\ _decode_skill_records(raw').records
             = Append(_decode_skill_records(raw).records, src'[Len(src')].rec)]_vars

C2_Witness ==
    /\ shape = "frames"
    /\ Len(src) = 2
    /\ src[1].defect = "none"
    /\ src[2].defect = "none"
    /\ src[1].rec # src[2].rec
    /\ result.decoder = "reader"
    /\ Len(result.records) = 2

\* C3: round trip: decoding the frame that encodes a valid record r yields a
\* list whose first element equals r in all five fields.
C3_RoundTrip ==
    (Decoded /\ shape = "frames" /\ Len(src) = 1 /\ src[1].defect = "none") =>
        /\ ~result.raised
        /\ Len(result.records) = 1
        /\ ~IsFailure(result.records[1])
        /\ result.records[1].mode = src[1].rec.mode
        /\ result.records[1].domain = src[1].rec.domain
        /\ result.records[1].score = src[1].rec.score
        /\ result.records[1].artifact_hash = src[1].rec.artifact_hash
        /\ result.records[1].timestamp = src[1].rec.timestamp

C3_Witness ==
    /\ Decoded
    /\ shape = "frames"
    /\ Len(src) = 1
    /\ src[1].defect = "none"
    /\ src[1].rec.mode = <<233>>
    /\ result.records[1].mode = <<233>>

\* C5: truncation safety: decoding a proper prefix of a valid multi-record
\* buffer, cut at any byte offset, does not raise and returns exactly the
\* records whose whole frame lies before the cut, with no other entry.
C5_TruncationSafe ==
    (Decoded /\ shape = "prefix") =>
        /\ ~result.raised
        /\ result.records = ContainedRecords

C5_Witness ==
    /\ Decoded
    /\ shape = "prefix"
    /\ Contained = 1
    /\ Len(raw) > EndOf(1) + HEADER_SIZE
    /\ Len(result.records) = 1

C7_MalformedFramesReported ==
    (Decoded /\ shape = "frames") =>
        /\ Len(result.records) = Len(src)
        /\ \A i \in 1..Len(src) :
            IF src[i].defect = "none"
            THEN /\ ~IsFailure(result.records[i])
                 /\ result.records[i] = src[i].rec
            ELSE /\ IsFailure(result.records[i])
                 /\ result.records[i].raw_hex
                      = hex(SubSeq(src[i].frame, 3, Len(src[i].frame)))

(***************************************************************************)
(* Reputation engine (reputation_engine/engine.py).                        *)
(*                                                                         *)
(* The engine's floats are held in fixed point: scores and reputations in  *)
(* hundredths (the engine rounds them to 2 places), decay weights in       *)
(* millionths, trust factors in hundred-thousandths (the trust index is    *)
(* rounded to 4 places, held in ten-thousandths; fixed point keeps it      *)
(* within one ten-thousandth of the engine's float).                       *)
(***************************************************************************)
DECAY_HALF_LIFE_DAYS == 180
BADGE_MIN_RECORDS == 3
BADGE_MIN_REPUTATION == 50
BADGE_MIN_DOMAINS == 1
MAX_SCORE_PER_RECORD == 100

DAY == 86400
WEIGHT_ONE == 1000000   \* the weight 1.0, in millionths
TRUST_ONE == 100000     \* the factor 1.0, in hundred-thousandths

Max(a, b) == IF a >= b THEN a ELSE b

SetMin(S) == CHOOSE x \in S : \A y \in S : x <= y
SetMax(S) == CHOOSE x \in S : \A y \in S : x >= y

RECURSIVE SumSeq(_)
SumSeq(xs) == IF Len(xs) = 0 THEN 0 ELSE xs[1] + SumSeq(Tail(xs))

\* round(p / q) to an integer, ties to even, for p >= 0 and q > 0.
round_div(p, q) ==
    LET f == p \div q
        r == p % q
    IN IF 2 * r < q THEN f
       ELSE IF 2 * r > q THEN f + 1
       ELSE IF f % 2 = 0 THEN f ELSE f + 1

\* round(p / q, 2), in hundredths, for p >= 0 and q > 0.
round2(p, q) == 100 * (p \div q) + round_div(100 * (p % q), q)

\* math.sqrt on an integer, rounded down.
RECURSIVE isqrt(_)
isqrt(n) ==
    IF n < 2 THEN n
    ELSE LET s == 2 * isqrt(n \div 4)
         IN IF (s + 1) * (s + 1) <= n THEN s + 1 ELSE s

\* dict.get(key, default)
get(rec, key, default) == IF key \in DOMAIN rec THEN rec[key] ELSE default

GENERAL == <<103, 101, 110, 101, 114, 97, 108>>     \* "general"
COLON == 58
WHITESPACE == {9, 10, 11, 12, 13, 32}

\* domain.split(":")[0]
split_first(domain) ==
    LET colons == {i \in 1..Len(domain) : domain[i] = COLON}
    IN IF colons = {} THEN domain ELSE SubSeq(domain, 1, SetMin(colons) - 1)

\* str.lower() on the letters A-Z
lower(text) ==
    [i \in 1..Len(text) |-> IF text[i] >= 65 /\ text[i] <= 90 THEN text[i] + 32 ELSE text[i]]

\* str.strip()
strip(text) ==
    LET kept == {i \in 1..Len(text) : text[i] \notin WHITESPACE}
    IN IF kept = {} THEN <<>> ELSE SubSeq(text, SetMin(kept), SetMax(kept))

\* Faulty variant of _normalize_domain: the whole tag, lowercased and trimmed.
_normalize_domain_whole(domain) == strip(lower(domain))

_normalize_domain(domain) == strip(lower(split_first(domain)))

domain_key(rec) == _normalize_domain(get(rec, "domain", GENERAL))

\* The keys of domain_records, in insertion order: each normalized domain at
\* the position of its first record.
RECURSIVE domain_keys(_)
domain_keys(records) ==
    IF Len(records) = 0 THEN <<>>
    ELSE LET front == domain_keys(SubSeq(records, 1, Len(records) - 1))
             key == domain_key(records[Len(records)])
         IN IF \E i \in 1..Len(front) : front[i] = key THEN front
            ELSE Append(front, key)

\* domain_records[key]: the records of one group, in input order.
domain_records(records, key) ==
    LET in_group(rec) == domain_key(rec) = key
    IN SelectSeq(records, in_group)

\* math.exp(-0.693 * age_days / DECAY_HALF_LIFE_DAYS), in millionths, at the
\* ages the model's timestamps give.
_decay_weight(age_days) ==
    CASE age_days = 0 -> 1000000
      [] age_days = 1 -> 996157
      [] age_days = DECAY_HALF_LIFE_DAYS -> 500074
      [] age_days = 365 -> 245306
      [] age_days = 400 -> 214381

\* age_days of a record in _score_domain: a missing or zero timestamp counts
\* as 365 days, a timestamp after now as 0 days.
age_days_of(rec, clock) ==
    LET ts == get(rec, "timestamp", 0)
    IN IF ts # 0 THEN Max(0, (clock - ts) \div DAY) ELSE 365

\* The decay weight _score_domain gives a record.
record_weight(rec, clock) == _decay_weight(age_days_of(rec, clock))

\* Faulty variant of raw_score: the clamp lets one point above the maximum
\* through.
raw_score_clamped_above(rec) == Min(get(rec, "score", 0), MAX_SCORE_PER_RECORD + 1)

raw_score(rec) == Min(get(rec, "score", 0), MAX_SCORE_PER_RECORD)

\* sorted(records, key=timestamp): a stable insertion sort.
RECURSIVE sorted_by_timestamp(_)
sorted_by_timestamp(records) ==
    IF Len(records) <= 1 THEN records
    ELSE LET front == sorted_by_timestamp(SubSeq(records, 1, Len(records) - 1))
             last == records[Len(records)]
             ts == get(last, "timestamp", 0)
             before == {i \in 1..Len(front) : get(front[i], "timestamp", 0) <= ts}
             at == IF before = {} THEN 0 ELSE SetMax(before)
         IN SubSeq(front, 1, at) \o <<last>> \o SubSeq(front, at + 1, Len(front))

(***************************************************************************)
(* The floats of trend detection, bit for bit.  A non-negative double is   *)
(* held as [int, frac]: its integer part and the bits after the binary     *)
(* point; every operation computes the exact result and rounds it to 53    *)
(* significant bits, ties to even, as IEEE 754 binary64 does.              *)
(***************************************************************************)
MANT_DIG == 53      \* sys.float_info.mant_dig
FRAC_BITS == 64     \* fraction bits of an exact quotient kept before rounding

\* The binary digits of a natural number, most significant first, no leading 0.
RECURSIVE Bits(_)
Bits(n) == IF n = 0 THEN <<>> ELSE Append(Bits(n \div 2), n % 2)

RECURSIVE BitsVal(_)
BitsVal(bits) ==
    IF Len(bits) = 0 THEN 0
    ELSE 2 * BitsVal(SubSeq(bits, 1, Len(bits) - 1)) + bits[Len(bits)]

\* bits + 1, with the carry out of the first bit prepended.
Inc(bits) ==
    LET zeros == {i \in 1..Len(bits) : bits[i] = 0}
    IN IF zeros = {} THEN <<1>> \o [i \in 1..Len(bits) |-> 0]
       ELSE [i \in 1..Len(bits) |->
                IF i < SetMax(zeros) THEN bits[i]
                ELSE IF i = SetMax(zeros) THEN 1 ELSE 0]

\* 2^k modulo den, by repeated squaring.
RECURSIVE pow2_mod(_, _)
pow2_mod(k, den) ==
    IF k = 0 THEN 1 % den
    ELSE LET root == pow2_mod(k \div 2, den)
         IN (root * root * (IF k % 2 = 1 THEN 2 ELSE 1)) % den

\* The first k bits of rem / den after the binary point (rem < den), and
\* the remainder left after them: long division, the remainder after i
\* steps being rem * 2^i modulo den.
div_bits(rem, den, k) ==
    LET rem_after(i) == (rem * pow2_mod(i, den)) % den
    IN [bits |-> [i \in 1..k |-> IF 2 * rem_after(i - 1) >= den THEN 1 ELSE 0],
        rem |-> rem_after(k)]

\* Rounding of the exact value int + 0.frac (+ something below the last bit
\* when sticky) to MANT_DIG significant bits, ties to even.
fround(int, frac, sticky) ==
    LET ibits == Bits(int)
        all == ibits \o frac
        ones == {i \in 1..Len(all) : all[i] = 1}
        lead == IF ones = {} THEN 1 ELSE SetMin(ones)
        last == lead + MANT_DIG - 1
    IN IF last >= Len(all) THEN [int |-> int, frac |-> frac]
       ELSE LET kept == SubSeq(all, 1, last)
                below == sticky \/ \E j \in (last + 2)..Len(all) : all[j] = 1
                up == all[last + 1] = 1 /\ (below \/ all[last] = 1)
                rounded == IF up THEN Inc(kept) ELSE kept
                point == Len(ibits) + (Len(rounded) - Len(kept))
            IN [int |-> BitsVal(SubSeq(rounded, 1, point)),
                frac |-> SubSeq(rounded, point + 1, Len(rounded))]

\* p / q on two ints (true division), p >= 0 and q > 0.
truediv(p, q) ==
    LET quotient == div_bits(p % q, q, FRAC_BITS)
    IN fround(p \div q, quotient.bits, quotient.rem # 0)

\* x + n for a float x and an int n with x + n >= 0.
float_add(x, n) == fround(x.int + n, x.frac, FALSE)

\* x < y on two floats.
float_lt(x, y) ==
    LET width == Max(Len(x.frac), Len(y.frac))
        xf == [i \in 1..width |-> IF i <= Len(x.frac) THEN x.frac[i] ELSE 0]
        yf == [i \in 1..width |-> IF i <= Len(y.frac) THEN y.frac[i] ELSE 0]
        differ == {i \in 1..width : xf[i] # yf[i]}
    IN \/ x.int < y.int
       \/ /\ x.int = y.int
          /\ differ # {}
          /\ xf[SetMin(differ)] < yf[SetMin(differ)]

\* The comparison of the two means in _score_domain, on the sums of the
\* scores (unsigned, as decoded) and the lengths of the two halves.
trend_from(sum_first, len_first, sum_second, len_second) ==
    LET avg_first == truediv(sum_first, len_first)
        avg_second == truediv(sum_second, len_second)
    IN IF float_lt(float_add(avg_first, 5), avg_second) THEN "rising"
       ELSE IF avg_first.int >= 5 /\ float_lt(avg_second, float_add(avg_first, -5))
       THEN "declining"
       ELSE "stable"

\* Trend detection of _score_domain.
trend_of(records) ==
    IF Len(records) >= 2
    THEN LET sorted_recs == sorted_by_timestamp(records)
             half == Len(sorted_recs) \div 2
             first_half == SubSeq(sorted_recs, 1, half)
             second_half == SubSeq(sorted_recs, half + 1, Len(sorted_recs))
             sum_first == SumSeq([i \in 1..Len(first_half) |-> get(first_half[i], "score", 0)])
             sum_second == SumSeq([i \in 1..Len(second_half) |-> get(second_half[i], "score", 0)])
         IN trend_from(sum_first, Max(Len(first_half), 1),
                       sum_second, Max(Len(second_half), 1))
    ELSE "stable"

_score_domain(domain, records, clock) ==
    LET weighted_sum == SumSeq([i \in 1..Len(records) |->
                                   raw_score(records[i]) * record_weight(records[i], clock)])
        weight_sum == SumSeq([i \in 1..Len(records) |-> record_weight(records[i], clock)])
        latest_ts == SetMax({0} \cup {get(records[i], "timestamp", 0) : i \in 1..Len(records)})
    IN [domain |-> domain,
        score |-> IF weight_sum > 0 THEN round2(weighted_sum, weight_sum) ELSE 0,
        record_count |-> Len(records),
        latest_timestamp |-> latest_ts,
        trend |-> trend_of(records)]

\* Faulty variant of capped_ratio: the ratio without the cap at 1.0.
uncapped_ratio(num, den) == (num * TRUST_ONE) \div den

\* min(1.0, num / den), in hundred-thousandths.
capped_ratio(num, den) == Min(TRUST_ONE, (num * TRUST_ONE) \div den)

\* value * share, the share given in hundredths (0.40 is 40).
weighted(value, share) == (value * share) \div 100

REP_SHARE == 40
VOLUME_SHARE == 20
DIVERSITY_SHARE == 15
CONSISTENCY_SHARE == 15
LONGEVITY_SHARE == 10

\* Factor 1: reputation score, normalized to 0-1 against 85.
rep_factor(reputation) == weighted(capped_ratio(reputation, 85 * 100), REP_SHARE)

\* Factor 2: record volume, log-scale intent, capped at 10 records.
volume_factor(n_records) == weighted(capped_ratio(n_records, 10), VOLUME_SHARE)

\* Factor 3: domain diversity, capped at 4 domains.
diversity_factor(domain_count) == weighted(capped_ratio(domain_count, 4), DIVERSITY_SHARE)

\* Factor 4: consistency, 1 - std_dev / 30 of the stored (unclamped) scores,
\* not below 0; 0.5 for fewer than 2 scores.
consistency_of(records) ==
    LET n == Len(records)
        scores == [i \in 1..n |-> get(records[i], "score", 0)]
        squares == [i \in 1..n |-> scores[i] * scores[i]]
        \* n * n * variance = n * sum(s^2) - sum(s)^2
        variance_100 == ((n * SumSeq(squares) - SumSeq(scores) * SumSeq(scores)) * 100)
                            \div (n * n)
        std_dev_100 == isqrt(variance_100 * 100)
    IN IF n >= 2 THEN Max(0, TRUST_ONE - (std_dev_100 * (TRUST_ONE \div 100)) \div 30)
       ELSE TRUST_ONE \div 2

consistency_factor(records) == weighted(consistency_of(records), CONSISTENCY_SHARE)

\* timestamps = [r.get("timestamp", 0) for r in records if r.get("timestamp")]
truthy_timestamps(records) ==
    {get(records[i], "timestamp", 0) : i \in 1..Len(records)} \ {0}

\* Factor 5: longevity, the span of the timestamps against 180 days.
longevity_factor(records) ==
    LET timestamps == truthy_timestamps(records)
        span_days == (SetMax(timestamps) - SetMin(timestamps)) \div DAY
    IN IF timestamps # {} THEN weighted(capped_ratio(span_days, 180), LONGEVITY_SHARE)
       ELSE 0

_compute_trust_index(reputation, n_records, domain_count, clock, records) ==
    rep_factor(reputation) + volume_factor(n_records)
        + diversity_factor(domain_count) + consistency_factor(records)
        + longevity_factor(records)

\* Faulty variant of _level_from_score: a score equal to a threshold falls
\* into the level below.
_level_from_score_strict(score) ==
    IF score > 90 * 100 THEN "exceptional"
    ELSE IF score > 70 * 100 THEN "strong"
    ELSE IF score > 50 * 100 THEN "moderate"
    ELSE IF score > 30 * 100 THEN "developing"
    ELSE "minimal"

_level_from_score(score) ==
    IF score >= 90 * 100 THEN "exceptional"
    ELSE IF score >= 70 * 100 THEN "strong"
    ELSE IF score >= 50 * 100 THEN "moderate"
    ELSE IF score >= 30 * 100 THEN "developing"
    ELSE "minimal"

\* Optional values: None is the empty set, a present value v is {v}.
None == {}
Some(v) == {v}

\* Faulty variant of badge_of: two records are enough.
badge_of_two(n_records, total_reputation, domain_count) ==
    /\ n_records >= 2
    /\ total_reputation >= BADGE_MIN_REPUTATION * 100
    /\ domain_count >= BADGE_MIN_DOMAINS

\* Verification badge eligibility in compute.
badge_of(n_records, total_reputation, domain_count) ==
    /\ n_records >= BADGE_MIN_RECORDS
    /\ total_reputation >= BADGE_MIN_REPUTATION * 100
    /\ domain_count >= BADGE_MIN_DOMAINS

\* domain_scores.sort(key=score, reverse=True): a stable insertion sort.
RECURSIVE sorted_by_score(_)
sorted_by_score(scores) ==
    IF Len(scores) <= 1 THEN scores
    ELSE LET front == sorted_by_score(SubSeq(scores, 1, Len(scores) - 1))
             last == scores[Len(scores)]
             before == {i \in 1..Len(front) : front[i].score >= last.score}
             at == IF before = {} THEN 0 ELSE SetMax(before)
         IN SubSeq(front, 1, at) \o <<last>> \o SubSeq(front, at + 1, Len(front))

\* The domain scores in grouping order, as compute appends them.
scored_domains(records, clock) ==
    LET keys == domain_keys(records)
    IN [i \in 1..Len(keys) |->
           _score_domain(keys[i], domain_records(records, keys[i]), clock)]

\* Faulty variant of empty_profile: the empty ledger gets the middle level.
empty_profile_moderate(wallet) ==
    [wallet |-> wallet, total_reputation |-> 0, credibility_level |-> "moderate",
     domain_scores |-> <<>>, verification_badge |-> FALSE, total_records |-> 0,
     trust_index |-> 0, top_domain |-> None, active_since |-> None]

\* The profile compute returns for an empty record list; the fields it does
\* not pass take the defaults of ReputationProfile.
empty_profile(wallet) ==
    [wallet |-> wallet, total_reputation |-> 0, credibility_level |-> "minimal",
     domain_scores |-> <<>>, verification_badge |-> FALSE, total_records |-> 0,
     trust_index |-> 0, top_domain |-> None, active_since |-> None]

\* Faulty variant of top_domain_of: among equal best scores the last group wins.
top_domain_last(domain_scores) ==
    LET best == SetMax({domain_scores[i].score : i \in 1..Len(domain_scores)})
        last_best == SetMax({i \in 1..Len(domain_scores) : domain_scores[i].score = best})
    IN IF Len(domain_scores) > 0 THEN Some(domain_scores[last_best].domain) ELSE None

\* max(domain_scores, key=lambda d: d.score).domain over the groups in the
\* order they were scored: max returns the first of equal maxima.
top_domain_of(domain_scores) ==
    LET best == SetMax({domain_scores[i].score : i \in 1..Len(domain_scores)})
        first_best == SetMin({i \in 1..Len(domain_scores) : domain_scores[i].score = best})
    IN IF Len(domain_scores) > 0 THEN Some(domain_scores[first_best].domain) ELSE None

\* Faulty variant of total_reputation_of: the plain mean of the domain scores.
total_reputation_unweighted(domain_scores) ==
    LET weighted_total == SumSeq([i \in 1..Len(domain_scores) |-> domain_scores[i].score])
        total_weight == Len(domain_scores)
    IN IF total_weight > 0 THEN round_div(weighted_total, total_weight) ELSE 0

\* The aggregate of compute: weighted_total and total_weight accumulated over
\* the scored groups, then round(weighted_total / total_weight, 2).
total_reputation_of(domain_scores) ==
    LET weighted_total == SumSeq([i \in 1..Len(domain_scores) |->
                             domain_scores[i].score * domain_scores[i].record_count])
        total_weight == SumSeq([i \in 1..Len(domain_scores) |->
                           domain_scores[i].record_count])
    IN IF total_weight > 0 THEN round_div(weighted_total, total_weight) ELSE 0

\* ReputationEngine.compute, with the clock value it reads as an argument.
compute(wallet, records, clock) ==
    IF Len(records) = 0 THEN empty_profile(wallet)
    ELSE LET domain_scores == scored_domains(records, clock)
             total_reputation == total_reputation_of(domain_scores)
             trust_index == _compute_trust_index(total_reputation, Len(records),
                                                 Len(domain_scores), clock, records)
             timestamps == truthy_timestamps(records)
         IN [wallet |-> wallet,
             total_reputation |-> total_reputation,
             credibility_level |-> _level_from_score(total_reputation),
             domain_scores |-> sorted_by_score(domain_scores),
             verification_badge |-> badge_of(Len(records), total_reputation,
                                             Len(domain_scores)),
             total_records |-> Len(records),
             trust_index |-> round_div(trust_index, 10),
             top_domain |-> top_domain_of(domain_scores),
             active_since |-> IF timestamps # {} THEN Some(SetMin(timestamps)) ELSE None]

(***************************************************************************)
(* Aggregator specification: a wallet's decoded records arrive one by one  *)
(* (what fetch_records returns), then get_reputation reads the clock and   *)
(* calls compute on them.                                                  *)
(***************************************************************************)
NOW == 20000 * DAY      \* the clock value int(time.time()) returns

RUST == <<114, 117, 115, 116>>                                  \* "rust"
GO == <<103, 111>>                                              \* "go"
PYTHON == <<112, 121, 116, 104, 111, 110>>                      \* "python"
PYTHON_PADDED == <<32, 80, 121, 116, 104, 111, 110, 32>>        \* " Python "
PYTHON_WEB == PYTHON \o <<58, 119, 101, 98, 45, 98, 97, 99, 107, 101, 110, 100>>
                                                                \* "python:web-backend"

\* A decoded record as parse_record returns it.
entry(domain, score, timestamp) ==
    [mode |-> <<97>>, domain |-> domain, score |-> score,
     artifact_hash |-> <<100>>, timestamp |-> timestamp]

\* What the decoder can hand to compute: decoded records (scores within and
\* beyond 100; timestamps at, before and after the clock, and zero) and a
\* failure entry, which has no domain, score or timestamp.
AggRecords ==
    { entry(RUST, 60, NOW), entry(RUST, 70, NOW), entry(RUST, 90, NOW),
      entry(PYTHON, 80, NOW - DECAY_HALF_LIFE_DAYS * DAY),
      entry(PYTHON_WEB, 100, NOW - 400 * DAY),
      entry(PYTHON_PADDED, 30, NOW - DAY),
      entry(GO, 300, 0), entry(GO, 300, NOW - 400 * DAY),
      entry(GO, 30, NOW), entry(GO, 30, NOW + DAY),
      failure_entry(<<0, 1>>, ERR_H, FALSE) }

Clock == {NOW}

\* records = fetch_records(wallet), one decoded entry at a time.
fetch_record(rec) ==
    /\ profile = NoProfile
    /\ Len(wallet_records) < MaxRecords
    /\ wallet_records' = Append(wallet_records, rec)
    /\ UNCHANGED <<now, profile>>
    /\ UNCHANGED ledgerVars
    /\ UNCHANGED codecVars
    /\ UNCHANGED clientVars

\* GET /reputation/{wallet}: profile = rep_engine.compute(wallet, records).
get_reputation(wallet) ==
    /\ profile = NoProfile
    /\ \E clock \in Clock :
          /\ now' = clock
          /\ profile' = compute(wallet, wallet_records, clock)
    /\ UNCHANGED wallet_records
    /\ UNCHANGED ledgerVars
    /\ UNCHANGED codecVars
    /\ UNCHANGED clientVars

AggNext ==
    \/ \E rec \in AggRecords : fetch_record(rec)
    \/ \E wallet \in Wallets : get_reputation(wallet)

AggSpec == Init /\ [][AggNext]_vars

Computed == profile # NoProfile

(***************************************************************************)
(* Properties of the reputation engine (AggSpec).                          *)
(***************************************************************************)
IsRecord(rec) == "timestamp" \in DOMAIN rec

HasRecord(rec) == \E i \in 1..Len(wallet_records) : wallet_records[i] = rec

\* The share of a factor, in hundred-thousandths.
ShareOf(share) == (TRUST_ONE * share) \div 100

C16_DecayMonotoneHalfLife ==
    Computed =>
        /\ \A i, j \in 1..Len(wallet_records) :
              LET older == wallet_records[i]
                  newer == wallet_records[j]
              IN (/\ IsRecord(older) /\ IsRecord(newer)
                  /\ [older EXCEPT !.timestamp = 0] = [newer EXCEPT !.timestamp = 0]
                  /\ older.timestamp < newer.timestamp)
                   => record_weight(older, now) < record_weight(newer, now)
        /\ \A i \in 1..Len(wallet_records) :
              age_days_of(wallet_records[i], now) = DECAY_HALF_LIFE_DAYS
                  => 2 * record_weight(wallet_records[i], now) = WEIGHT_ONE

\* C17: the badge is granted exactly when there are at least 3 records, the
\* total reputation is at least 50 and there is at least 1 distinct domain; one
\* record of score 80 gets no badge, three records 60, 70, 90 in one domain
\* at timestamp = now get domain score 73.33 and the badge.
C17_BadgeEligibility ==
    Computed =>
        /\ profile.verification_badge <=>
              (/\ Len(wallet_records) >= 3
               /\ profile.total_reputation >= 50 * 100
               /\ Cardinality({domain_key(wallet_records[i]) :
                                  i \in 1..Len(wallet_records)}) >= 1)
        /\ (Len(wallet_records) = 1 /\ get(wallet_records[1], "score", 0) = 80)
              => ~profile.verification_badge
        /\ wallet_records = <<entry(RUST, 60, NOW), entry(RUST, 70, NOW), entry(RUST, 90, NOW)>>
              => /\ profile.verification_badge
                 /\ profile.domain_scores[1].score = 7333

C17_Witness ==
    /\ Computed
    /\ wallet_records = <<entry(RUST, 60, NOW), entry(RUST, 70, NOW), entry(RUST, 90, NOW)>>
    /\ profile.verification_badge
    /\ profile.total_reputation = 7333

Levels == <<"minimal", "developing", "moderate", "strong", "exceptional">>
LevelRank(level) == CHOOSE i \in 1..Len(Levels) : Levels[i] = level
Thresholds == {0, 30, 50, 70, 90}
\* Reputations, in hundredths, at, just below and just above each threshold,
\* and the two ends of the range.
ProbeScores == {t * 100 + d : t \in Thresholds, d \in {-1, 0, 1}} \cup {0, 100 * 100}

\* C18: the credibility level of a computed profile is the step function of
\* its total reputation (>= 90 exceptional, >= 70 strong, >= 50 moderate,
\* >= 30 developing, else minimal); the step function is monotone; a single
\* record of score 80 gives total reputation 80.0 and level strong.
C18_LevelIsStepFunction ==
    Computed =>
        LET t == profile.total_reputation
            level == profile.credibility_level
        IN /\ t \in 0..(100 * 100)
           /\ \E i \in 1..Len(Levels) : level = Levels[i]
           /\ level = "exceptional" <=> t >= 90 * 100
           /\ level = "strong" <=> (t >= 70 * 100 /\ t < 90 * 100)
           /\ level = "moderate" <=> (t >= 50 * 100 /\ t < 70 * 100)
           /\ level = "developing" <=> (t >= 30 * 100 /\ t < 50 * 100)
           /\ level = "minimal" <=> t < 30 * 100
           /\ \A a, b \in ProbeScores \cup {t} :
                 (0 <= a /\ a <= b)
                    => LevelRank(_level_from_score(a)) <= LevelRank(_level_from_score(b))
           /\ (Len(wallet_records) = 1 /\ get(wallet_records[1], "score", 0) = 80)
                 => (t = 80 * 100 /\ level = "strong")

C18_Witness ==
    /\ Computed
    /\ Len(wallet_records) = 2
    /\ profile.total_reputation = 70 * 100
    /\ profile.credibility_level = "strong"

\* C19: compute on an empty record list returns the zero-valued profile:
\* total reputation 0, level minimal, trust index 0, no badge, 0 records, no
\* domain scores, no top domain and no active_since.
C19_EmptyLedgerProfile ==
    (Computed /\ wallet_records = <<>>) =>
        /\ profile.total_reputation = 0
        /\ profile.credibility_level = "minimal"
        /\ profile.trust_index = 0
        /\ profile.verification_badge = FALSE
        /\ profile.total_records = 0
        /\ profile.domain_scores = <<>>
        /\ profile.top_domain = None
        /\ profile.active_since = None

C19_Witness ==
    /\ Computed
    /\ wallet_records = <<>>
    /\ profile.wallet = "bob"

\* The records of the input that carry one of the given domain tags.
Tagged(tags) ==
    {i \in 1..Len(wallet_records) :
        IsRecord(wallet_records[i]) /\ wallet_records[i].domain \in tags}

\* C20: records are grouped by the part of the domain before the first ':',
\* lowercased and trimmed ('python:web-backend', ' Python ' and 'python' all
\* fall into the group 'python'); the groups have distinct domains, every
\* record is counted in exactly one group, and the groups' record counts sum
\* to total_records.
C20_GroupsPartitionRecords ==
    Computed =>
        LET groups == profile.domain_scores
            python_tags == {PYTHON, PYTHON_WEB, PYTHON_PADDED}
        IN /\ \A g, h \in 1..Len(groups) : groups[g].domain = groups[h].domain => g = h
           /\ SumSeq([g \in 1..Len(groups) |-> groups[g].record_count])
                 = profile.total_records
           /\ profile.total_records = Len(wallet_records)
           /\ \A g \in 1..Len(groups) :
                 /\ groups[g].record_count > 0
                 /\ groups[g].domain = PYTHON =>
                       groups[g].record_count = Cardinality(Tagged(python_tags))
                 /\ groups[g].domain = RUST =>
                       groups[g].record_count = Cardinality(Tagged({RUST}))
                 /\ groups[g].domain = GO =>
                       groups[g].record_count = Cardinality(Tagged({GO}))
                 /\ groups[g].domain = GENERAL =>
                       groups[g].record_count
                          = Cardinality({i \in 1..Len(wallet_records) :
                                            ~IsRecord(wallet_records[i])})
                 /\ groups[g].domain \in {PYTHON, RUST, GO, GENERAL}

C20_Witness ==
    /\ Computed
    /\ HasRecord(entry(PYTHON_WEB, 100, NOW - 400 * DAY))
    /\ HasRecord(entry(PYTHON, 80, NOW - DECAY_HALF_LIFE_DAYS * DAY))
    /\ HasRecord(entry(RUST, 60, NOW))
    /\ Len(profile.domain_scores) = 2

\* C21: stored scores are clamped to 100 before weighting, so every domain
\* score and the total reputation of a computed profile lie between 0 and
\* 100, and a group whose stored scores are all above 100 scores exactly 100.
C21_ScoresClamped ==
    Computed =>
        /\ profile.total_reputation \in 0..(MAX_SCORE_PER_RECORD * 100)
        /\ \A g \in 1..Len(profile.domain_scores) :
              /\ profile.domain_scores[g].score \in 0..(MAX_SCORE_PER_RECORD * 100)
              /\ (\A i \in 1..Len(wallet_records) :
                     domain_key(wallet_records[i]) = profile.domain_scores[g].domain
                        => get(wallet_records[i], "score", 0) > MAX_SCORE_PER_RECORD)
                    => profile.domain_scores[g].score = MAX_SCORE_PER_RECORD * 100

C21_Witness ==
    /\ Computed
    /\ HasRecord(entry(GO, 300, 0))
    /\ HasRecord(entry(GO, 300, NOW - 400 * DAY))
    /\ HasRecord(entry(RUST, 60, NOW))
    /\ profile.domain_scores[1].domain = GO
    /\ profile.domain_scores[1].score = MAX_SCORE_PER_RECORD * 100
    /\ profile.total_reputation < MAX_SCORE_PER_RECORD * 100

(***************************************************************************)
(* Trend specification: up to MaxDomainRecords decoded records of a single *)
(* domain, all stamped with the clock value, then get_reputation.          *)
(***************************************************************************)
TrendRecords ==
    { entry(RUST, 60, NOW), entry(RUST, 61, NOW),
      entry(RUST, 65, NOW), entry(RUST, 66, NOW) }

\* records = fetch_records(wallet) for a wallet that submitted to one domain,
\* one decoded entry at a time.
fetch_domain_record(rec) ==
    /\ profile = NoProfile
    /\ Len(wallet_records) < MaxDomainRecords
    /\ wallet_records' = Append(wallet_records, rec)
    /\ UNCHANGED <<now, profile>>
    /\ UNCHANGED ledgerVars
    /\ UNCHANGED codecVars
    /\ UNCHANGED clientVars

TrendNext ==
    \/ \E rec \in TrendRecords : fetch_domain_record(rec)
    \/ \E wallet \in Wallets : get_reputation(wallet)

TrendSpec == Init /\ [][TrendNext]_vars

\* The trend the rule gives a group of records, the means compared as exact
\* fractions: the timestamp-sorted records are split into the first
\* floor(n/2) and the rest.
ExactTrend(records) ==
    LET sorted_recs == sorted_by_timestamp(records)
        n == Len(sorted_recs)
        earlier == n \div 2
        later == n - earlier
        sum_earlier == SumSeq([i \in 1..earlier |-> get(sorted_recs[i], "score", 0)])
        sum_later == SumSeq([i \in 1..later |-> get(sorted_recs[earlier + i], "score", 0)])
    IN IF n < 2 THEN "stable"
       ELSE IF sum_later * earlier > (sum_earlier + 5 * earlier) * later THEN "rising"
       ELSE IF (sum_later + 5 * later) * earlier < sum_earlier * later THEN "declining"
       ELSE "stable"

\* C22: the trend of every domain group is 'rising' iff the mean of the later
\* half of its raw scores exceeds the mean of the earlier half by more than
\* 5, 'declining' iff it is more than 5 lower, else 'stable'; a difference of
\* exactly 5 is 'stable', and so is a group of fewer than 2 records.
C22_TrendRule ==
    Computed =>
        \A g \in 1..Len(profile.domain_scores) :
            profile.domain_scores[g].trend
                = ExactTrend(domain_records(wallet_records, profile.domain_scores[g].domain))

\* Sum over the domain groups of score * record_count, in hundredths.
WeightedScoreSum ==
    SumSeq([g \in 1..Len(profile.domain_scores) |->
               profile.domain_scores[g].score * profile.domain_scores[g].record_count])

\* C23 as stated: total_reputation equals the record-count-weighted mean of
\* the domain scores, sum(domain.score * domain.record_count) / total_records,
\* exactly.
C23_TotalIsExactMean ==
    (Computed /\ profile.total_records > 0) =>
        profile.total_reputation * profile.total_records = WeightedScoreSum

\* C23 (amended): total_reputation is the record-count-weighted mean of the
\* domain scores rounded to 2 decimals (it is within half a hundredth of
\* sum(domain.score * domain.record_count) / total_records); when all records
\* are in one domain it equals that domain's score, and when every record has
\* the same score s <= 100 it equals s whatever the timestamps are.
C23_TotalIsRoundedWeightedMean ==
    (Computed /\ profile.total_records > 0) =>
        /\ LET diff == profile.total_reputation * profile.total_records - WeightedScoreSum
           IN 2 * diff <= profile.total_records /\ 2 * diff >= 0 - profile.total_records
        /\ SumSeq([g \in 1..Len(profile.domain_scores) |->
                      profile.domain_scores[g].record_count]) = profile.total_records
        /\ Len(profile.domain_scores) = 1 =>
               profile.total_reputation = profile.domain_scores[1].score
        /\ \A s \in 0..MAX_SCORE_PER_RECORD :
               (\A i \in 1..Len(wallet_records) : get(wallet_records[i], "score", 0) = s)
                   => profile.total_reputation = 100 * s

\* Two groups of different sizes and different scores have been aggregated,
\* and a profile of equally scored records with different timestamps exists.
C23_Witness ==
    /\ Computed
    /\ Len(profile.domain_scores) = 2
    /\ profile.domain_scores[1].record_count # profile.domain_scores[2].record_count
    /\ profile.domain_scores[1].score # profile.domain_scores[2].score
    /\ WeightedScoreSum % profile.total_records # 0

\* The group the i-th input record falls into.
GroupOf(i) ==
    IF ~IsRecord(wallet_records[i]) THEN GENERAL
    ELSE IF wallet_records[i].domain \in {PYTHON, PYTHON_WEB, PYTHON_PADDED} THEN PYTHON
    ELSE wallet_records[i].domain

\* Position in the input list of the first record of a group.
FirstSeen(domain) == SetMin({i \in 1..Len(wallet_records) : GroupOf(i) = domain})

\* The groups of the profile whose score is the maximum over all groups.
BestGroups ==
    {g \in 1..Len(profile.domain_scores) :
        \A h \in 1..Len(profile.domain_scores) :
            profile.domain_scores[h].score <= profile.domain_scores[g].score}

\* C24: top_domain is a domain whose score is the maximum over all domain
\* groups, and when several domains tie for the maximum it is the one whose
\* first record appears earliest in the input list.
C24_TopDomainFirstEncountered ==
    (Computed /\ Len(wallet_records) > 0) =>
        \E g \in BestGroups :
            /\ profile.top_domain = Some(profile.domain_scores[g].domain)
            /\ \A h \in BestGroups :
                   FirstSeen(profile.domain_scores[g].domain)
                      <= FirstSeen(profile.domain_scores[h].domain)

\* Two groups tie for the maximum and the one seen first is not the first
\* record's group.
C24_Witness ==
    /\ Computed
    /\ Cardinality(BestGroups) >= 2
    /\ Len(profile.domain_scores) >= 3
    /\ profile.top_domain # Some(GroupOf(1))

\* Number of UTF-8 bytes of a text: one per code point below 128, two above.
ByteLen(text) ==
    Len(text) + Cardinality({i \in 1..Len(text) : text[i] >= 128})

\* The big-endian number held in bytes[first..last].
BigEndianAt(bytes, first, last) ==
    LET width == last - first + 1
        pow256(k) == IF k = 0 THEN 1 ELSE IF k = 1 THEN 256
                     ELSE IF k = 2 THEN 65536 ELSE 16777216
    IN IF \E i \in first..(last - 4) : bytes[i] # 0 THEN -1
       ELSE SumSeq([i \in 1..width |->
                IF i > width - 4 THEN bytes[first + i - 1] * pow256(width - i) ELSE 0])

\* The [2-byte length][bytes] block at a 0-based offset of a struct payload
\* lies within the payload and holds the UTF-8 bytes of text.
BlockHolds(struct, offset, text) ==
    /\ offset >= HEADER_SIZE
    /\ offset + 2 <= Len(struct)
    /\ BigEndianAt(struct, offset + 1, offset + 2) = ByteLen(text)
    /\ offset + 2 + ByteLen(text) <= Len(struct)
    /\ utf8_decode(SubSeq(struct, offset + 3, offset + 2 + ByteLen(text))) = text

\* A submit_skill_record call has been committed.
Committed == txn.method = "submit_skill_record" /\ txn.ok

\* C25: the frame stored for a valid record is a 2-byte big-endian
\* frame_length followed by exactly frame_length payload bytes, frame_length
\* being 22 + (2 + len(mode)) + (2 + len(domain)) + (2 + len(artifact_hash))
\* in UTF-8 bytes; the header holds the mode offset, the domain offset, the
\* 8-byte big-endian score, the artifact_hash offset and the 8-byte big-endian
\* timestamp, and each offset is a position inside the payload, not counting
\* the outer prefix, of a [2-byte length][bytes] block lying within the frame.
C25_FrameLayout ==
    Committed =>
        LET r == txn.args
            box == boxes[sender_key(txn.wallet)]
            frame_length == 22 + (2 + ByteLen(r.mode)) + (2 + ByteLen(r.domain))
                               + (2 + ByteLen(r.artifact_hash))
            frame == SubSeq(box, Len(box) - frame_length - 1, Len(box))
            struct == SubSeq(frame, 3, Len(frame))
        IN /\ Len(box) >= frame_length + 2
           /\ BigEndianAt(frame, 1, 2) = frame_length
           /\ Len(struct) = frame_length
           /\ BlockHolds(struct, BigEndianAt(struct, 1, 2), r.mode)
           /\ BlockHolds(struct, BigEndianAt(struct, 3, 4), r.domain)
           /\ BigEndianAt(struct, 5, 12) = r.score
           /\ BlockHolds(struct, BigEndianAt(struct, 13, 14), r.artifact_hash)
           /\ BigEndianAt(struct, 15, 22) = r.timestamp
           /\ BigEndianAt(struct, 1, 2) < BigEndianAt(struct, 3, 4)
           /\ BigEndianAt(struct, 3, 4) < BigEndianAt(struct, 13, 14)

\* A record with two-byte characters and an empty field has been stored
\* behind an earlier frame.
C25_Witness ==
    /\ Committed
    /\ ByteLen(txn.args.artifact_hash) > Len(txn.args.artifact_hash)
    /\ txn.args.mode = <<>>
    /\ record_count(txn.wallet).count >= 2

\* Walking the 2-byte length prefixes of data from a 0-based offset, every
\* prefix and every frame body read lies within data and the walk ends
\* exactly on the end of data.
RECURSIVE LandsOnEnd(_, _)
LandsOnEnd(data, offset) ==
    IF offset = Len(data) THEN TRUE
    ELSE /\ offset + 2 <= Len(data)
         /\ LET frame_length == data[offset + 1] * 256 + data[offset + 2]
            IN /\ offset + 2 + frame_length <= Len(data)
               /\ LandsOnEnd(data, offset + 2 + frame_length)

\* C26: in every reachable state every existing box is non-empty and is an
\* exact concatenation of complete frames: the walk over the length prefixes
\* from offset 0 lands exactly on the end of the box, so the walk of
\* get_record_count never reads a prefix or a frame body past the end.
C26_BoxesAreWholeFrames ==
    /\ \A key \in DOMAIN boxes :
          /\ Len(boxes[key]) > 0
          /\ LandsOnEnd(boxes[key], 0)
          /\ record_count(key).ok
    /\ txn.method = "get_record_count" => txn.ok

\* get_record_count has walked a box of two or more frames.
C26_Witness ==
    /\ txn.method = "get_record_count"
    /\ txn.ok
    /\ txn.count >= 2
    /\ box_exists(txn.wallet)

(***************************************************************************)
(* The submit clients: POST /submit (backend/routers/submission.py,        *)
(* backend/main.py) and the CLI submit command (interact.py).  Both fund   *)
(* the application account and then send the submit_skill_record call in a *)
(* retry loop.  client.send.* either returns after the transaction has     *)
(* been confirmed or raises; it can raise although the transaction was     *)
(* accepted and is confirmed (the connection to the node fails while the   *)
(* client waits for the confirmation).                                     *)
(***************************************************************************)
MAX_RETRIES == 3

Clients == {"http", "cli"}

\* default_sender of the application client: every request is sent by the
\* deployer account.
DEPLOYER == "alice"

\* str(exc) of the exceptions client.send raises, as code points.
NoError == <<>>
TXN_DEAD == <<84, 114, 97, 110, 115, 97, 99, 116, 105, 111, 110, 80, 111, 111, 108, 46, 82, 101, 109, 101, 109, 98, 101, 114, 58, 32, 116, 120, 110, 32, 100, 101, 97, 100>>
ROUND_OUTSIDE == <<82, 111, 117, 110, 100, 32, 111, 117, 116, 115, 105, 100, 101, 32, 111, 102, 32, 118, 97, 108, 105, 100, 105, 116, 121, 32, 119, 105, 110, 100, 111, 119>>
LOGIC_ERROR == <<108, 111, 103, 105, 99, 32, 101, 118, 97, 108, 32, 101, 114, 114, 111, 114>>
CONNECTION_ERROR == <<67, 111, 110, 110, 101, 99, 116, 105, 111, 110, 32, 114, 101, 115, 101, 116, 32, 98, 121, 32, 112, 101, 101, 114>>

\* needle in text
contains(text, needle) ==
    \E i \in 0..(Len(text) - Len(needle)) : SubSeq(text, i + 1, i + Len(needle)) = needle

\* Faulty variant of _is_retriable: every error is retried.
_is_retriable_any(exc) == TRUE

\* _is_retriable: "txn dead" in msg or "round outside of" in msg, msg lowercased.
_is_retriable(exc) ==
    LET msg == lower(exc)
    IN \/ contains(msg, <<116, 120, 110, 32, 100, 101, 97, 100>>)
       \/ contains(msg, <<114, 111, 117, 110, 100, 32, 111, 117, 116, 115, 105, 100, 101, 32, 111, 102>>)

\* What one client.send call can do: the transaction is confirmed or not,
\* and the call returns (NoError) or raises.  A transaction the node refuses
\* is not confirmed; one that is confirmed may still raise in the client.
SendOutcomes ==
    { [confirmed |-> TRUE, error |-> NoError],
      [confirmed |-> TRUE, error |-> CONNECTION_ERROR],
      [confirmed |-> FALSE, error |-> CONNECTION_ERROR],
      [confirmed |-> FALSE, error |-> TXN_DEAD],
      [confirmed |-> FALSE, error |-> ROUND_OUTSIDE] }

\* The records a request carries.
RequestRecords == {r \in Records : r.timestamp \in {7, 70000}}

\* The except clause of the retry loops decides whether the loop goes on:
\* the route retries on any exception, the CLI on retriable ones only.
retries(client, exc, attempt) ==
    IF client = "http" THEN attempt < MAX_RETRIES
    ELSE _is_retriable(exc) /\ attempt < MAX_RETRIES

Finished == request.phase \in {"idle", "succeeded", "failed"}

\* Entry of submit_record / the CLI's submit_skill_record: the clients and
\* the arguments are built; the MBR payment comes next.
submit_record_begin(client, r) ==
    /\ Finished
    /\ request' = [phase |-> "funding", client |-> client, args |-> r,
                   fund_attempt |-> 0, attempt |-> 0, error |-> NoError,
                   base |-> record_count(sender_key(DEPLOYER)).count]
    /\ UNCHANGED <<fetch, walk>>
    /\ UNCHANGED ledgerVars
    /\ UNCHANGED codecVars
    /\ UNCHANGED aggVars

\* The MBR payment: once in the route (an exception ends the request with
\* 502), in a retry loop in the CLI.
submit_record_fund(outcome) ==
    /\ request.phase = "funding"
    /\ LET attempt == request.fund_attempt + 1
           retry == request.client = "cli" /\ _is_retriable(outcome.error)
                       /\ attempt < MAX_RETRIES
       IN request' = [request EXCEPT
              !.fund_attempt = attempt,
              !.error = outcome.error,
              !.phase = IF outcome.error = NoError THEN "submitting"
                        ELSE IF retry THEN "funding" ELSE "failed"]
    /\ UNCHANGED <<fetch, walk>>
    /\ UNCHANGED ledgerVars
    /\ UNCHANGED codecVars
    /\ UNCHANGED aggVars

\* One iteration of the submit loop: client.send.submit_skill_record and the
\* except clause.  A confirmed transaction runs the contract call, which
\* appends the payload or is rejected as a whole (a logic error in the
\* client).
submit_record_attempt(outcome) ==
    /\ request.phase = "submitting"
    /\ \E new \in {payload(request.args)} :
       LET sender == DEPLOYER
           r == request.args
           attempt == request.attempt + 1
           fits == appended_box_fits(sender_key(sender), new)
           appended == outcome.confirmed /\ fits
           exc == IF outcome.confirmed /\ ~fits /\ outcome.error = NoError
                  THEN LOGIC_ERROR ELSE outcome.error
       IN /\ IF appended
             THEN /\ boxes' = [k \in DOMAIN boxes \cup {sender_key(sender)} |->
                                 IF k = sender_key(sender)
                                 THEN appended_box(sender_key(sender), new)
                                 ELSE boxes[k]]
                  /\ submitted' = [submitted EXCEPT ![sender] = Append(@, r)]
                  /\ last_read' = [last_read EXCEPT ![sender_key(sender)] = Unread]
             ELSE UNCHANGED <<boxes, submitted, last_read>>
          /\ txn' = IF outcome.confirmed
                    THEN [method |-> "submit_skill_record", wallet |-> sender,
                          args |-> r, ok |-> fits, bytes |-> <<>>, count |-> 0]
                    ELSE txn
          /\ request' = [request EXCEPT
                 !.attempt = attempt,
                 !.error = exc,
                 !.phase = IF exc = NoError THEN "succeeded"
                           ELSE IF retries(request.client, exc, attempt) THEN "submitting"
                           ELSE "failed"]
    /\ UNCHANGED <<fetch, walk>>
    /\ UNCHANGED codecVars
    /\ UNCHANGED aggVars

RetryNext ==
    \/ \E client \in Clients, r \in RequestRecords : submit_record_begin(client, r)
    \/ \E outcome \in SendOutcomes : submit_record_fund(outcome)
    \/ \E outcome \in SendOutcomes : submit_record_attempt(outcome)

RetrySpec == Init /\ [][RetryNext]_vars

\* Records the request in progress has added to the deployer's box.
AppendedByRequest == record_count(sender_key(DEPLOYER)).count - request.base

\* C27: one submit request appends at most one record to the ledger, even
\* when an attempt reports an error and the request retries it, and a request
\* that reports failure leaves no record appended.
C27_AtMostOneRecordPerRequest ==
    request.phase # "idle" =>
        /\ AppendedByRequest <= 1
        /\ request.phase = "failed" => AppendedByRequest = 0

\* The loops run on: client.send returns or raises after at most
\* max_rounds_to_wait rounds and time.sleep(RETRY_DELAY) ends.
RetryLiveSpec ==
    /\ RetrySpec
    /\ WF_vars(\E outcome \in SendOutcomes : submit_record_fund(outcome))
    /\ WF_vars(\E outcome \in SendOutcomes : submit_record_attempt(outcome))

\* The errors the CLI classifies as transient.
Transient(exc) == exc \in {TXN_DEAD, ROUND_OUTSIDE}

\* At most MAX_RETRIES attempts are made; success follows an attempt that
\* returned; the route fails only after the third failed attempt, the CLI
\* after the third or on an error that is not transient; a loop that goes on
\* has just seen an error, a transient one in the CLI.
AttemptsBounded ==
    request.phase # "idle" =>
        /\ request.attempt <= MAX_RETRIES
        /\ request.phase = "succeeded" =>
               request.error = NoError /\ request.attempt >= 1
        /\ (request.phase = "failed" /\ request.attempt > 0) =>
               /\ request.error # NoError
               /\ request.client = "http" => request.attempt = MAX_RETRIES
               /\ request.client = "cli" =>
                      request.attempt = MAX_RETRIES \/ ~Transient(request.error)
        /\ (request.phase = "submitting" /\ request.attempt > 0) =>
               /\ request.error # NoError
               /\ request.attempt < MAX_RETRIES
               /\ request.client = "cli" => Transient(request.error)

\* A finished request makes no further attempt, and an attempt is counted
\* one at a time; a failed attempt short of the third is retried by the
\* route whatever the error, by the CLI when the error is transient.
AttemptsStep ==
    /\ request.phase \in {"succeeded", "failed"} =>
           request' = request \/ (request'.phase = "funding" /\ request'.attempt = 0)
    /\ request.phase = "submitting" =>
           /\ request'.attempt \in {request.attempt, request.attempt + 1}
           /\ (request'.attempt = request.attempt + 1 /\ request'.error # NoError
                 /\ request'.attempt < MAX_RETRIES
                 /\ (request.client = "http" \/ Transient(request'.error)))
                 => request'.phase = "submitting"
           /\ (request'.attempt = request.attempt + 1 /\ request'.error = NoError)
                 => request'.phase = "succeeded"

\* C29: every submit request terminates after at most MAX_RETRIES attempts of
\* the submit transaction: it returns success on the first attempt that
\* succeeds and makes no further attempt, and surfaces an error after the
\* third failed attempt; the CLI retries only 'txn dead' / 'round outside of'
\* errors and fails at once on any other, the route retries on any error.
C29_SubmitTerminates ==
    /\ []AttemptsBounded
    /\ [][AttemptsStep]_vars
    /\ (request.phase \in {"funding", "submitting"}) ~> (request.phase \in {"succeeded", "failed"})

\* The route has succeeded on its third attempt, after two failures.
C29_Witness ==
    /\ request.phase = "succeeded"
    /\ request.client = "http"
    /\ request.attempt = MAX_RETRIES

(***************************************************************************)
(* fetch_records (backend/config.py) and read_records (read_records.py):   *)
(* the record count is read with one application call and, when it is not  *)
(* zero, the raw buffer with a second one; submits of any sender may be    *)
(* confirmed between the two calls.                                        *)
(***************************************************************************)
Readers == {"backend", "reader"}

\* The decoder each reader applies to the raw bytes.
reader_decode(reader, data) ==
    IF reader = "backend" THEN decode_skill_records(data) ELSE read_records_decode(data)

FetchIdle == fetch.phase \in {"idle", "done", "raised"}

\* Faulty variant of fetch_records_count: a count of 1 is also taken as no
\* records.
fetch_records_count_skip_one(reader, wallet, sent) ==
    /\ FetchIdle
    /\ IF sent
       THEN /\ txn' = [method |-> "get_record_count", wallet |-> wallet, args |-> NoArgs,
                       ok |-> record_count(wallet).ok,
                       bytes |-> <<>>, count |-> record_count(wallet).count]
            /\ fetch' = [phase |-> IF ~record_count(wallet).ok THEN "raised"
                                   ELSE IF record_count(wallet).count <= 1 THEN "done"
                                   ELSE "counted",
                         reader |-> reader, wallet |-> wallet,
                         count |-> record_count(wallet).count,
                         raw |-> <<>>, records |-> <<>>]
       ELSE /\ txn' = txn
            /\ fetch' = [phase |-> "raised", reader |-> reader, wallet |-> wallet,
                         count |-> 0, raw |-> <<>>, records |-> <<>>]
    /\ UNCHANGED <<boxes, submitted, last_read>>
    /\ UNCHANGED <<request, walk>>
    /\ UNCHANGED codecVars
    /\ UNCHANGED aggVars

\* First half of fetch_records / read_records: client.send.get_record_count
\* and the `count == 0` return.  sent: the call went through (read_records
\* retries it, fetch_records does not; either gives the count or raises).
fetch_records_count(reader, wallet, sent) ==
    /\ FetchIdle
    /\ IF sent
       THEN /\ txn' = [method |-> "get_record_count", wallet |-> wallet, args |-> NoArgs,
                       ok |-> record_count(wallet).ok,
                       bytes |-> <<>>, count |-> record_count(wallet).count]
            /\ fetch' = [phase |-> IF ~record_count(wallet).ok THEN "raised"
                                   ELSE IF record_count(wallet).count = 0 THEN "done"
                                   ELSE "counted",
                         reader |-> reader, wallet |-> wallet,
                         count |-> record_count(wallet).count,
                         raw |-> <<>>, records |-> <<>>]
       ELSE /\ txn' = txn
            /\ fetch' = [phase |-> "raised", reader |-> reader, wallet |-> wallet,
                         count |-> 0, raw |-> <<>>, records |-> <<>>]
    /\ UNCHANGED <<boxes, submitted, last_read>>
    /\ UNCHANGED <<request, walk>>
    /\ UNCHANGED codecVars
    /\ UNCHANGED aggVars

\* Second half: client.send.get_skill_records and the decoding of its bytes.
fetch_records_read(sent) ==
    /\ fetch.phase = "counted"
    /\ IF sent
       THEN /\ txn' = [method |-> "get_skill_records", wallet |-> fetch.wallet,
                       args |-> NoArgs, ok |-> TRUE,
                       bytes |-> box_get(fetch.wallet), count |-> 0]
            /\ last_read' = [last_read EXCEPT ![fetch.wallet] =
                                [seen |-> TRUE, bytes |-> box_get(fetch.wallet)]]
            /\ fetch' = [fetch EXCEPT
                   !.phase = IF reader_decode(fetch.reader, box_get(fetch.wallet)).raised
                             THEN "raised" ELSE "done",
                   !.raw = box_get(fetch.wallet),
                   !.records = reader_decode(fetch.reader, box_get(fetch.wallet)).records]
       ELSE /\ txn' = txn
            /\ last_read' = last_read
            /\ fetch' = [fetch EXCEPT !.phase = "raised"]
    /\ UNCHANGED <<boxes, submitted>>
    /\ UNCHANGED <<request, walk>>
    /\ UNCHANGED codecVars
    /\ UNCHANGED aggVars

FetchNext ==
    \/ \E sender \in Wallets, r \in Records : submit_skill_record(sender, r)
    \/ \E reader \in Readers, wallet \in Wallets, sent \in BOOLEAN :
          fetch_records_count(reader, wallet, sent)
    \/ \E sent \in BOOLEAN : fetch_records_read(sent)

FetchSpec == Init /\ [][FetchNext]_vars

\* C28: with appends to identity k confirmed between the two calls of
\* fetch_records(k), the returned list is empty (the count read first was 0)
\* or the decoding of one consistent snapshot of k's buffer: the frames of
\* the first n records k submitted, for some n not below the count read
\* first; it stays a prefix of k's record sequence as that grows.
C28_FetchReturnsSnapshot ==
    fetch.phase = "done" =>
        \/ fetch.count = 0 /\ fetch.records = <<>>
        \/ /\ fetch.count > 0
           /\ \E n \in fetch.count..Len(submitted[fetch.wallet]) :
                 /\ fetch.raw = Frames(SubSeq(submitted[fetch.wallet], 1, n))
                 /\ fetch.records = SubSeq(submitted[fetch.wallet], 1, n)
           /\ IsPrefix(fetch.records, submitted[fetch.wallet])

\* A record was appended between the count call and the read, and another
\* one after the list was returned.
C28_Witness ==
    /\ fetch.phase = "done"
    /\ fetch.count = 1
    /\ Len(fetch.records) = 2
    /\ Len(submitted[fetch.wallet]) = 3

(***************************************************************************)
(* The loops, one iteration at a time: the while loop of the off-chain     *)
(* decoders over any byte buffer and the while loop of get_record_count    *)
(* over a box.  A run builds either decoder input or boxes, and the loop   *)
(* works on the buffer it was entered with.                                *)
(***************************************************************************)
Decoders == {"backend", "reader", "cli"}

\* Faulty variant of decode_iteration: a frame that fails to parse is not
\* skipped.
decode_iteration_stuck(w) ==
    LET data == w.data
        data_len == Len(data)
        offset == w.offset
    IN IF ~(offset < data_len) THEN [w EXCEPT !.phase = "done"]
       ELSE IF prefix_missing(offset, data_len) THEN [w EXCEPT !.phase = "done"]
       ELSE LET record_len == unpack(2, Slice(data, offset, offset + 2))
                body == offset + 2
            IN IF record_len = StructError THEN [w EXCEPT !.phase = "raised"]
               ELSE IF body_missing(body, record_len, data_len)
               THEN [w EXCEPT !.offset = body, !.phase = "done"]
               ELSE LET rec == Slice(data, body, body + record_len)
                        decoded == ByValue(LAMBDA r : parse_record(r, w.decoder = "cli"),
                                           rec)
                    IN IF IsFailure(decoded) THEN w
                       ELSE [w EXCEPT !.offset = body + record_len,
                                      !.entries = Append(@, decoded)]

\* The loop test and one pass through the body of `while offset < data_len`
\* in decode_skill_records / _decode_skill_records.
decode_iteration(w) ==
    LET data == w.data
        data_len == Len(data)
        offset == w.offset
    IN IF ~(offset < data_len) THEN [w EXCEPT !.phase = "done"]
       ELSE IF prefix_missing(offset, data_len) THEN [w EXCEPT !.phase = "done"]
       ELSE LET record_len == unpack(2, Slice(data, offset, offset + 2))
                body == offset + 2
            IN IF record_len = StructError THEN [w EXCEPT !.phase = "raised"]
               ELSE IF body_missing(body, record_len, data_len)
               THEN [w EXCEPT !.offset = body, !.phase = "done"]
               ELSE LET rec == Slice(data, body, body + record_len)
                        decoded == ByValue(LAMBDA r : parse_record(r, w.decoder = "cli"),
                                           rec)
                    IN [w EXCEPT !.offset = body + record_len,
                                 !.entries = Append(@, decoded)]

\* The loop test and one pass through the body of `while offset < data_len`
\* in get_record_count; op.extract past the end fails the call.
count_iteration(w) ==
    LET box_data == w.data
        data_len == Len(box_data)
        offset == w.offset
    IN IF ~(offset < data_len) THEN [w EXCEPT !.phase = "done"]
       ELSE IF offset + 2 > data_len THEN [w EXCEPT !.phase = "failed"]
       ELSE LET record_len == _bytes_to_uint16(SubSeq(box_data, offset + 1, offset + 2))
            IN [w EXCEPT !.offset = offset + 2 + record_len, !.count = @ + 1]

\* Entry of a decoder: records = [], offset = 0, data_len = len(raw).
decode_enter(decoder) ==
    /\ walk.phase = "idle"
    /\ walk' = [phase |-> "running", decoder |-> decoder, data |-> raw,
                offset |-> 0, entries |-> <<>>, count |-> 0]
    /\ UNCHANGED <<request, fetch>>
    /\ UNCHANGED ledgerVars
    /\ UNCHANGED codecVars
    /\ UNCHANGED aggVars

\* Entry of get_record_count for a wallet that has a box: count = 0,
\* offset = 0, data_len = box_data.length.
count_enter(wallet) ==
    /\ walk.phase = "idle"
    /\ box_exists(wallet)
    /\ walk' = [phase |-> "running", decoder |-> "contract", data |-> box_get(wallet),
                offset |-> 0, entries |-> <<>>, count |-> 0]
    /\ UNCHANGED <<request, fetch>>
    /\ UNCHANGED ledgerVars
    /\ UNCHANGED codecVars
    /\ UNCHANGED aggVars

\* One iteration of the loop in progress.
walk_iteration ==
    /\ walk.phase = "running"
    /\ \E after \in {IF walk.decoder = "contract" THEN count_iteration(walk)
                     ELSE decode_iteration(walk)} : walk' = after
    /\ UNCHANGED <<request, fetch>>
    /\ UNCHANGED ledgerVars
    /\ UNCHANGED codecVars
    /\ UNCHANGED aggVars

\* The records the buffers and boxes of the loops are built from: one with
\* ASCII text only and one with an empty string and two-byte characters.
WalkRecords == {r \in Records : r.timestamp \in {7, 70000}}

WalkNext ==
    \/ \E r \in WalkRecords, defect \in Defects :
          walk.phase = "idle" /\ boxes = <<>> /\ codec_append(r, defect)
    \/ \E n \in 0..(Len(raw) - 1) :
          walk.phase = "idle" /\ boxes = <<>> /\ codec_truncate(n)
    \/ \E b \in StrayBytes :
          walk.phase = "idle" /\ boxes = <<>> /\ codec_stray(b)
    \/ \E sender \in Wallets, r \in WalkRecords :
          walk.phase = "idle" /\ raw = <<>> /\ submit_skill_record(sender, r)
    \/ \E decoder \in Decoders : decode_enter(decoder)
    \/ \E wallet \in Wallets : count_enter(wallet)
    \/ walk_iteration

WalkSpec == Init /\ [][WalkNext]_vars

\* An iteration in progress ends: the interpreter and the AVM keep running
\* the loop.
WalkLiveSpec == WalkSpec /\ WF_vars(walk_iteration)

Walking == walk.phase = "running"
WalkEnded == walk.phase \in {"done", "raised", "failed"}

\* Number of complete frames of the buffer that end at or before a 0-based
\* offset.
RECURSIVE FramesUpTo(_, _, _)
FramesUpTo(data, from, offset) ==
    IF from + 2 > Len(data) THEN 0
    ELSE LET upto == from + 2 + data[from + 1] * 256 + data[from + 2]
         IN IF upto > Len(data) \/ upto > offset THEN 0
            ELSE 1 + FramesUpTo(data, upto, offset)

\* What the decoder in progress returns for its buffer.
Returned ==
    IF walk.decoder = "cli" THEN _decode_skill_records(walk.data).records
    ELSE decode_skill_records(walk.data).records

\* The cursor stays within the buffer and the loop has emitted (or counted)
\* exactly one entry per complete frame the cursor has passed, in buffer
\* order: the entries are the first ones of what the decoder returns, a
\* well-formed frame has given its record, and an ended decoder has returned
\* the whole list and never raised; an ended count is the box's record count.
WalkInv ==
    walk.phase # "idle" =>
        /\ walk.offset <= Len(walk.data)
        /\ walk.phase \in {"running", "done"}
        /\ walk.decoder # "contract" =>
              /\ Len(walk.entries) = FramesUpTo(walk.data, 0, walk.offset)
              /\ IsPrefix(walk.entries, Returned)
              /\ \A i \in 1..Len(walk.entries) :
                    (i <= Contained /\ src[i].defect = "none") =>
                        walk.entries[i] = src[i].rec
              /\ walk.phase = "done" => walk.entries = Returned
        /\ walk.decoder = "contract" =>
              /\ walk.count = FramesUpTo(walk.data, 0, walk.offset)
              /\ walk.phase = "done" =>
                    /\ walk.offset = Len(walk.data)
                    /\ walk.count = count_records(walk.data, TRUE).count

\* Every iteration either ends the loop or moves the cursor strictly
\* forward, and adds at most one entry behind those already emitted.
WalkStep ==
    Walking =>
        \/ walk' = walk
        \/ /\ walk'.data = walk.data
           /\ walk'.offset > walk.offset \/ ~Walking'
           /\ walk'.offset >= walk.offset
           /\ IsPrefix(walk.entries, walk'.entries)
           /\ Len(walk'.entries) <= Len(walk.entries) + 1
           /\ walk'.count <= walk.count + 1

\* C30: decode terminates on every finite byte buffer, well-formed or not,
\* because its cursor strictly increases on every iteration, and it emits at
\* most one entry (record or failure) per complete frame in buffer order;
\* get_record_count terminates on every reachable buffer.
C30_WalksTerminate ==
    /\ []WalkInv
    /\ [][WalkStep]_vars
    /\ Walking ~> WalkEnded

\* A decoder has ended on a buffer with a failing frame and a cut frame
\* behind a cursor that stopped short of the end.
C30_Witness ==
    /\ walk.phase = "done"
    /\ walk.decoder = "reader"
    /\ walk.offset < Len(walk.data)
    /\ Len(walk.entries) >= 1

====
